---- MODULE Spec2Model ----
(***************************************************************************)
(* Media pipeline controller of web-video-review                           *)
(* (src/server/services/videoService.js and the video router,              *)
(* src/unnamed/part_000): the source-fetch cache, the transcoder           *)
(* supervisor, the HLS session registry and the currently-loaded key.      *)
(*                                                                         *)
(* Node runs each callback to completion, so one action is one callback    *)
(* (or one stretch of an async function between two real suspensions)      *)
(* together with the promise continuations it triggers.                    *)
(***************************************************************************)
EXTENDS Integers, Sequences, FiniteSets, TLC

\* ------------------------------------------------------------------ bounds
\* Asset keys are sequences of characters; K2 contains K1 as a substring.
K1 == <<"x">>
K2 == <<"y", "x">>
Keys == {K1, K2}
NoKey == <<>>

SrcSize == 2          \* chunks in every source object (1 chunk > 1 MiB)
SecsPerChunk == 120   \* seconds of content in one chunk (8 / bitrate)
MaxTasks == 2         \* download task slots
MaxCalls == 1         \* ensureLocalFile calls waiting on another caller's download
MaxRuns == 2          \* generation runs, with their children, tracked at one time
MaxWaiters == 2       \* playlist requests awaiting the promise of one run
NumSegs == 2          \* segments a child writes before exiting normally
MaxProbes == 2        \* ffprobe processes running at one time
MaxInfoTimers == 3    \* pending expiry timers of the video info memo

TaskIds == 1..MaxTasks
CallIds == 1..MaxCalls
RunIds == 1..MaxRuns
Chunks == 1..SrcSize
NeedChoices == {60, 180}   \* requiredDuration values of analysis callers

\* ------------------------------------------------------- program constants
BufferMultiplier == 2
KillAfterSecs == 2
RmdirAfterSecs == 5
MaxLocalCacheSize == 2
DefaultSegmentDuration == 10

VARIABLES
  enableLocalCache,        \* this.enableLocalCache
  currentlyLoadedVideo,    \* this.currentlyLoadedVideo (NoKey = null)
  localFile,               \* the file at getLocalFilePath(k): inode and chunks
  localFileCache,          \* this.localFileCache: k -> entry
  lru,                     \* keys of localFileCache by ascending lastAccessed
  activeDownloads,         \* this.activeDownloads: k -> task whose promise it holds
  tasks,                   \* downloadFileToLocal invocations
  calls,                   \* suspended ensureLocalFile calls
  ensureRets,              \* what the ensureLocalFile calls that returned in the last step returned
  activeProcesses,         \* this.activeProcesses: cacheKey -> generation run
  hlsGenerationInProgress, \* this.hlsGenerationInProgress
  awaiting,                \* run -> playlist requests awaiting the promise of the run
  nativeHlsCache,          \* this.nativeHlsCache: k -> session
  runs,                    \* generateNativeLiveHLS runs and the ffmpeg child of each
  dirs,                    \* working directories cacheDir/live-hls/<sanitized key>
  timers,                  \* pending setTimeout callbacks of the supervisor
  sinceAbortAll,           \* -1: no abort-all yet; 0: one was run; RmdirAfterSecs: 5 s ago or more
  gate,                    \* the waitForInitialSegments invocation the model follows
  segReq,                  \* the segment request whose read stream is being opened
  responses,               \* the HTTP responses sent in the last step
  playlistSent,            \* k -> segments listed by the body of the last playlist response (-1: none yet)
  videoInfoCache,          \* this.videoInfoCache: k -> memoized probe record
  probes,                  \* getVideoInfo invocations waiting for their ffprobe callback
  infoExpiry,              \* pending one-hour expiry timers of videoInfoCache, in arming order
  probeRets,               \* what the getVideoInfo calls that settled in the last step returned
  analyses,                \* ffmpeg processes of getAudioWaveform and getEbuR128Analysis calls
  waveformCache,           \* this.waveformCache: k -> waveform
  measured,                \* the results the analysis calls have returned so far
  audioPlans,              \* the audio graphs the ffmpeg command lines built in the last step hold
  tempDirs                 \* the working directories the session starts so far derived, by key

cacheVars == <<localFile, localFileCache, lru, activeDownloads, tasks, calls, ensureRets>>
hlsRest == <<activeProcesses, hlsGenerationInProgress, awaiting, nativeHlsCache, dirs, timers,
             sinceAbortAll>>
hlsVars == <<runs, hlsRest>>
probeVars == <<videoInfoCache, probes, infoExpiry, probeRets>>
analysisVars == <<analyses, waveformCache, measured>>
webRest == <<gate, segReq, probeVars, analysisVars, audioPlans, tempDirs>>
webVars == <<responses, playlistSent, webRest>>
vars == <<enableLocalCache, currentlyLoadedVideo, cacheVars, hlsVars, webVars>>

\* No reply is sent in this step.
NoReply == responses' = {} /\ UNCHANGED playlistSent

\* ----------------------------------------------------------------- helpers
Max(S) == CHOOSE x \in S : \A y \in S : y <= x
Min(a, b) == IF a <= b THEN a ELSE b
CeilDiv(a, b) == (a + b - 1) \div b
Least(S) == CHOOSE x \in S : \A y \in S : x <= y

RECURSIVE SeqSum(_, _)
SeqSum(s, f) == IF s = <<>> THEN 0 ELSE f[Head(s)] + SeqSum(Tail(s), f)

SeqWithout(s, k) == SelectSeq(s, LAMBDA x : x # k)
Touch(s, k) == Append(SeqWithout(s, k), k)

\* ------------------------------------------------------ source-fetch cache
\* The file at k's local path: its chunks; a task's descriptor is attached to it
\* until the path is unlinked (the task then writes to the orphaned inode).
NoFile == [exists |-> FALSE, chunks |-> {}]
NoEntry == [has |-> FALSE, size |-> 0, totalSize |-> 0, isPartial |-> "undefined"]
\* A downloadFileToLocal invocation; by is the caller that awaits it at line 186
\* (0: an analysis request, r: generation run r).
FreeTask == [st |-> "free", key |-> NoKey, need |-> 0, by |-> 0, hasResolved |-> FALSE,
             downloaded |-> 0, check |-> FALSE, att |-> FALSE]
\* An ensureLocalFile call waiting on another caller's download.
FreeCall == [st |-> "free", key |-> NoKey, need |-> 0, task |-> 0, by |-> 0]

\* fsSync.existsSync(localPath) and fsSync.statSync(localPath).size
ExistsSync(f) == f.exists
StatSize(f) == Max(f.chunks \cup {0})

\* checkSufficientDataForDuration: requiredBytes = ceil(duration * bitrate/8 * 2.0),
\* bytesNeeded = min(requiredBytes, totalSize); statSync throws on a missing file
\* and the catch returns false. The video info is in videoInfoCache (lines
\* 406-407), so the check finishes within the turn of its caller.
RequiredBytes(need) == CeilDiv(need * BufferMultiplier, SecsPerChunk)
BytesNeeded(need) == Min(RequiredBytes(need), SrcSize)
checkSufficientDataForDuration(f, need) ==
  ExistsSync(f) /\ StatSize(f) >= BytesNeeded(need)

\* Tasks that are fetching bytes into the file at k's local path.
WritersOf(k, ts) ==
  {t \in TaskIds : ts[t].key = k
                   /\ (ts[t].st = "connecting" \/ (ts[t].st = "fetching" /\ ts[t].att))}
\* unlink(localPath): the descriptors of the tasks writing it stay open.
Detach(ts, k) == [t \in TaskIds |-> IF ts[t].key = k THEN [ts[t] EXCEPT !.att = FALSE]
                                    ELSE ts[t]]

FreeTaskIds == {t \in TaskIds : tasks[t].st = "free"}
FreeCallIds == {c \in CallIds : calls[c].st = "free"}

\* What an ensureLocalFile(k, need) call of an analysis request returned.
Observation(k, need, outcome) == [key |-> k, need |-> need, outcome |-> outcome]

\* cleanupCacheIfNeeded, lines 470-481: the loop over the entries sorted by
\* lastAccessed; unlinkSync throws for a missing file or for a key in fails.
CacheTargetReached(remaining) == 10 * remaining <= 8 * MaxLocalCacheSize

RECURSIVE EvictLoop(_, _, _, _, _, _)
EvictLoop(order, total, removed, cache, fs, fails) ==
  IF order = <<>> \/ CacheTargetReached(total - removed)
  THEN [cache |-> cache, fs |-> fs]
  ELSE LET k == Head(order) IN
       IF ~ExistsSync(fs[k]) \/ k \in fails
       THEN EvictLoop(Tail(order), total, removed, cache, fs, fails)
       ELSE EvictLoop(Tail(order), total, removed + cache[k].size,
                      [cache EXCEPT ![k] = NoEntry], [fs EXCEPT ![k] = NoFile], fails)

\* cleanupCacheIfNeeded, lines 455-488.
cleanupCacheIfNeeded(cache, fs, order, fails) ==
  LET sizes == [k \in Keys |-> cache[k].size]
      totalSize == SeqSum(order, sizes)
      r == IF totalSize > MaxLocalCacheSize
           THEN EvictLoop(order, totalSize, 0, cache, fs, fails)
           ELSE [cache |-> cache, fs |-> fs]
  IN [cache |-> r.cache, fs |-> r.fs,
      lru |-> SelectSeq(order, LAMBDA k : r.cache[k].has)]

\* ensureLocalFile returns to generation run r (line 723): the run goes on to the
\* spawn; a thrown error falls back to the signed URL (lines 739-747).
Ensured(rs, back) == [r \in RunIds |-> IF r \in back THEN [rs[r] EXCEPT !.st = "ensured"]
                                       ELSE rs[r]]

\* The promise of task t settles: the continuations of every ensureLocalFile call
\* awaiting it run (lines 177, 186-192, 236): the owner deletes activeDownloads[k],
\* and each call returns or throws.
Settle(t, k, outcome) ==
  LET woken == {c \in CallIds : calls[c].st = "await" /\ calls[c].task = t}
      ext == {calls[c].need : c \in {w \in woken : calls[w].by = 0}}
               \cup (IF tasks[t].by = 0 THEN {tasks[t].need} ELSE {})
      back == ({calls[c].by : c \in woken} \cup {tasks[t].by}) \ {0}
  IN /\ calls' = [c \in CallIds |-> IF c \in woken THEN FreeCall ELSE calls[c]]
     /\ activeDownloads' = [activeDownloads EXCEPT ![k] = 0]
     /\ ensureRets' = {Observation(k, n, outcome) : n \in ext}
     /\ runs' = Ensured(runs, back)

\* An ensureLocalFile call returns at once with `outcome`.
ReturnNow(k, need, by, outcome) ==
  /\ ensureRets' = IF by = 0 THEN {Observation(k, need, outcome)} ELSE {}
  /\ runs' = Ensured(runs, {by} \ {0})
  /\ calls' = calls

\* The call suspends on the download of another caller: on its promise (line 177)
\* or polling in waitForSufficientData (lines 138, 174).
Suspend(k, need, by, st, t) ==
  /\ FreeCallIds # {}
  /\ calls' = [calls EXCEPT ![Least(FreeCallIds)] =
                 [st |-> st, key |-> k, need |-> need, task |-> t, by |-> by]]
  /\ ensureRets' = {}
  /\ runs' = IF by = 0 THEN runs ELSE [runs EXCEPT ![by].st = "ensure"]

\* ensureLocalFile(s3Key, requiredDuration) up to its first suspension;
\* need = 0 stands for requiredDuration = null.
ensureLocalFile(k, need, by) ==
  LET f == localFile[k]
      entry == [has |-> TRUE, size |-> StatSize(f), totalSize |-> 0,
                isPartial |-> "undefined"]
  IN IF ~enableLocalCache
     THEN /\ ReturnNow(k, need, by, "null")
          /\ UNCHANGED <<localFile, localFileCache, lru, activeDownloads, tasks>>
     ELSE IF ExistsSync(f) /\ (need = 0 \/ checkSufficientDataForDuration(f, need))
     THEN \* lines 142-165: refresh the cache entry and hand out the path
          /\ localFileCache' = [localFileCache EXCEPT ![k] = entry]
          /\ lru' = Touch(lru, k)
          /\ ReturnNow(k, need, by, "path")
          /\ UNCHANGED <<localFile, activeDownloads, tasks>>
     ELSE IF activeDownloads[k] # 0
     THEN \* lines 137-139, 169-178
          /\ Suspend(k, need, by, IF need # 0 THEN "poll" ELSE "await", activeDownloads[k])
          /\ UNCHANGED <<localFile, localFileCache, lru, activeDownloads, tasks>>
     ELSE \* lines 180-186: start a download and await it
          /\ FreeTaskIds # {}
          /\ LET t == Least(FreeTaskIds) IN
               /\ tasks' = [tasks EXCEPT ![t] = [FreeTask EXCEPT !.st = "connecting",
                                                   !.key = k, !.need = need, !.by = by]]
               /\ activeDownloads' = [activeDownloads EXCEPT ![k] = t]
          /\ ensureRets' = {}
          /\ runs' = IF by = 0 THEN runs ELSE [runs EXCEPT ![by].st = "ensure"]
          /\ UNCHANGED <<localFile, localFileCache, lru, calls>>

\* An analysis request calls ensureLocalFile: _generateWaveformData without a
\* duration, getEbuR128Analysis with one.
EnsureRequest(k, need) ==
  /\ ensureLocalFile(k, need, 0)
  /\ NoReply /\ UNCHANGED <<webRest, enableLocalCache, currentlyLoadedVideo, hlsRest>>

\* The response callback, lines 275-283. The write stream made at line 270 has
\* opened its file by now (flags 'w': create or truncate); status 200 starts the
\* body, any other status rejects and leaves the file.
Response(t, ok) ==
  /\ tasks[t].st = "connecting"
  /\ localFile' = [localFile EXCEPT ![tasks[t].key] = [exists |-> TRUE, chunks |-> {}]]
  /\ IF ok
     THEN /\ tasks' = [tasks EXCEPT ![t].st = "fetching", ![t].att = TRUE]
          /\ ensureRets' = {}
          /\ UNCHANGED <<activeDownloads, calls, runs>>
     ELSE /\ tasks' = [tasks EXCEPT ![t] = FreeTask]
          /\ Settle(t, tasks[t].key, "error")
  /\ NoReply /\ UNCHANGED <<webRest, enableLocalCache, currentlyLoadedVideo, localFileCache, lru, hlsRest>>

\* response.on('data'), lines 285-322: the chunk goes to the task's own descriptor
\* at the task's own offset; every chunk passes the 1 MiB mark, and the
\* sufficiency check is deferred with setImmediate.
Data(t) ==
  /\ tasks[t].st = "fetching"
  /\ tasks[t].downloaded < SrcSize
  /\ LET k == tasks[t].key
         n == tasks[t].downloaded + 1
     IN /\ localFile' = IF tasks[t].att
                        THEN [localFile EXCEPT ![k].chunks = @ \cup {n}]
                        ELSE localFile
        /\ tasks' = [tasks EXCEPT ![t].downloaded = n,
                                  ![t].check = @ \/ (tasks[t].need # 0 /\ ~tasks[t].hasResolved)]
  /\ ensureRets' = {}
  /\ NoReply /\ UNCHANGED <<webRest, enableLocalCache, currentlyLoadedVideo, localFileCache, lru,
                 activeDownloads, calls, hlsVars>>

\* The download is over for task t. A sufficiency check that is still queued will
\* run with hasResolved as it was left: neither 'end' nor a rejection sets it.
Over(c) ==
  IF c.check /\ ~c.hasResolved
  THEN [c EXCEPT !.st = "ended", !.by = 0, !.att = FALSE]
  ELSE FreeTask

\* The setImmediate callback, lines 294-320: early resolve. After the promise has
\* settled, resolve() does nothing, but the cache entry is still written.
EarlyCheck(t) ==
  /\ tasks[t].check
  /\ LET k == tasks[t].key
         hit == checkSufficientDataForDuration(localFile[k], tasks[t].need)
                  /\ ~tasks[t].hasResolved
         after == IF tasks[t].st = "ended" THEN FreeTask
                  ELSE IF hit
                  THEN [tasks[t] EXCEPT !.check = FALSE, !.hasResolved = TRUE,
                                        !.need = 0, !.by = 0]
                  ELSE [tasks[t] EXCEPT !.check = FALSE]
     IN /\ tasks' = [tasks EXCEPT ![t] = after]
        /\ IF hit
           THEN /\ localFileCache' = [localFileCache EXCEPT ![k] =
                     [has |-> TRUE, size |-> tasks[t].downloaded, totalSize |-> SrcSize,
                      isPartial |-> "true"]]
                /\ lru' = Touch(lru, k)
           ELSE UNCHANGED <<localFileCache, lru>>
        /\ IF hit /\ tasks[t].st # "ended"
           THEN Settle(t, k, "path")
           ELSE /\ ensureRets' = {}
                /\ UNCHANGED <<activeDownloads, calls, runs>>
  /\ NoReply /\ UNCHANGED <<webRest, enableLocalCache, currentlyLoadedVideo, localFile, hlsRest>>

\* response.on('end'), lines 324-360, with the eviction pass it runs.
End(t, fails) ==
  /\ tasks[t].st = "fetching"
  /\ tasks[t].downloaded = SrcSize
  /\ LET k == tasks[t].key
         cache1 == IF ~tasks[t].hasResolved
                   THEN [localFileCache EXCEPT ![k] =
                           [has |-> TRUE, size |-> tasks[t].downloaded,
                            totalSize |-> SrcSize, isPartial |-> "false"]]
                   ELSE IF localFileCache[k].has
                   THEN [localFileCache EXCEPT ![k].size = tasks[t].downloaded,
                                               ![k].isPartial = "false"]
                   ELSE localFileCache
         order1 == IF ~tasks[t].hasResolved THEN Touch(lru, k) ELSE lru
         r == cleanupCacheIfNeeded(cache1, localFile, order1, fails)
         gone == {x \in Keys : ExistsSync(localFile[x]) /\ ~ExistsSync(r.fs[x])}
         ended == [tasks EXCEPT ![t] = Over(tasks[t])]
     IN /\ localFileCache' = r.cache
        /\ localFile' = r.fs
        /\ lru' = r.lru
        /\ tasks' = [x \in TaskIds |-> IF ended[x].key \in gone
                                       THEN [ended[x] EXCEPT !.att = FALSE] ELSE ended[x]]
        /\ IF ~tasks[t].hasResolved
           THEN Settle(t, k, "path")
           ELSE /\ ensureRets' = {}
                /\ UNCHANGED <<activeDownloads, calls, runs>>
  /\ NoReply /\ UNCHANGED <<webRest, enableLocalCache, currentlyLoadedVideo, hlsRest>>

\* response 'error', request 'error' and the 5-minute timeout, lines 362-388:
\* before the promise resolved the path is unlinked and the promise rejected;
\* after an early resolve a stream error only logs and the timeout does nothing.
Fail(t, kind) ==
  /\ tasks[t].st \in {"connecting", "fetching"}
  /\ kind = "response" => tasks[t].st = "fetching"
  /\ kind \in {"request", "timeout"} => ~tasks[t].hasResolved
  /\ LET k == tasks[t].key IN
       IF ~tasks[t].hasResolved
       THEN /\ localFile' = [localFile EXCEPT ![k] = NoFile]
            /\ tasks' = Detach([tasks EXCEPT ![t] = Over(tasks[t])], k)
            /\ Settle(t, k, "error")
       ELSE /\ tasks' = [tasks EXCEPT ![t] = FreeTask]
            /\ ensureRets' = {}
            /\ UNCHANGED <<localFile, activeDownloads, calls, runs>>
  /\ NoReply /\ UNCHANGED <<webRest, enableLocalCache, currentlyLoadedVideo, localFileCache, lru, hlsRest>>

\* waitForSufficientData, one run of checkData (lines 202-254) that ends the wait:
\* enough data now, or the 30 s limit passed (timedOut).
PollCheck(c, timedOut) ==
  /\ calls[c].st = "poll"
  /\ LET k == calls[c].key
         f == localFile[k]
         e == localFileCache[k]
         by == calls[c].by
     IN IF checkSufficientDataForDuration(f, calls[c].need)
        THEN /\ ~timedOut
             /\ IF ~e.has \/ e.size = 0 \/ StatSize(f) >= e.size
                THEN /\ localFileCache' = [localFileCache EXCEPT ![k] =
                          [has |-> TRUE, size |-> StatSize(f), totalSize |-> e.totalSize,
                           isPartial |-> "true"]]
                     /\ lru' = Touch(lru, k)
                ELSE UNCHANGED <<localFileCache, lru>>
             /\ calls' = [calls EXCEPT ![c] = FreeCall]
             /\ ensureRets' = IF by = 0
                              THEN {Observation(k, calls[c].need, "path")}
                              ELSE {}
             /\ runs' = Ensured(runs, {by} \ {0})
        ELSE /\ timedOut
             /\ UNCHANGED <<localFileCache, lru>>
             /\ IF activeDownloads[k] # 0
                THEN /\ calls' = [calls EXCEPT ![c].st = "await",
                                               ![c].task = activeDownloads[k]]
                     /\ ensureRets' = {}
                     /\ runs' = runs
                ELSE /\ calls' = [calls EXCEPT ![c] = FreeCall]
                     /\ ensureRets' = IF by = 0
                                      THEN {Observation(k, calls[c].need, "error")}
                                      ELSE {}
                     /\ runs' = Ensured(runs, {by} \ {0})
  /\ NoReply /\ UNCHANGED <<webRest, enableLocalCache, currentlyLoadedVideo, localFile, activeDownloads, tasks,
                 hlsRest>>

\* ---------------------------------------------------- transcoder supervisor
SegDurs == {DefaultSegmentDuration}
Opts == [seg : SegDurs, gonio : BOOLEAN]
CacheKeys == [key : Keys, opt : Opts]

\* The cacheKey string of generateNativeLiveHLS (line 644), as a sequence of
\* tokens, and String.prototype.includes on it.
CacheKeyString(ck) ==
  <<"nativehls:">> \o ck.key \o <<":", ToString(ck.opt.seg), ":">>
    \o <<IF ck.opt.gonio THEN "gonio" ELSE "normal">> \o <<":", "noR128">>
Includes(s, sub) ==
  \E i \in 1..(Len(s) - Len(sub) + 1) : SubSeq(s, i, i + Len(sub) - 1) = sub

\* sanitizedKey, line 684: replace(/[^a-zA-Z0-9._-]/g, '_').replace(/_{2,}/g, '_')
SafeChars ==
  {"a", "b", "c", "d", "e", "f", "g", "h", "i", "j", "k", "l", "m", "n", "o", "p", "q",
   "r", "s", "t", "u", "v", "w", "x", "y", "z", "A", "B", "C", "D", "E", "F", "G", "H",
   "I", "J", "K", "L", "M", "N", "O", "P", "Q", "R", "S", "T", "U", "V", "W", "X", "Y",
   "Z", "0", "1", "2", "3", "4", "5", "6", "7", "8", "9", ".", "_", "-"}
ReplaceUnsafe(s) == [i \in 1..Len(s) |-> IF s[i] \in SafeChars THEN s[i] ELSE "_"]
RECURSIVE CollapseUnderscores(_)
CollapseUnderscores(s) ==
  IF Len(s) < 2 THEN s
  ELSE IF s[1] = "_" /\ s[2] = "_" THEN CollapseUnderscores(Tail(s))
  ELSE <<s[1]>> \o CollapseUnderscores(Tail(s))
Sanitize(k) == CollapseUnderscores(ReplaceUnsafe(k))
TempDir(k) == Sanitize(k)
DirNames == {TempDir(k) : k \in Keys}

NoDir == [exists |-> FALSE, segs |-> {}, playlist |-> -1]
EmptyDir == [exists |-> TRUE, segs |-> {}, playlist |-> -1]
NoSession == [has |-> FALSE, child |-> 0, seg |-> 0]
NoOpt == [seg |-> 0, gonio |-> FALSE]
\* A run of _generateNativeLiveHLSInternal and, from the spawn on, its child:
\* st is the run's position before the spawn ("start", "purged", "made", "ensure",
\* "ensured") and the child's state after it ("alive", "reading", "dead");
\* isResolved is the closure variable of lines 1026-1027, killed is handle.killed.
FreeRun == [st |-> "free", key |-> NoKey, opt |-> NoOpt, killed |-> FALSE, seg |-> 0,
            stop |-> FALSE, isResolved |-> FALSE, pre |-> FALSE]

Alive(r) == runs[r].st = "alive"
AliveChildrenOf(k) == {r \in RunIds : Alive(r) /\ runs[r].key = k}
PlaylistExists(d) == d.exists /\ d.playlist >= 0

\* The segments ffmpeg makes from the source k with -hls_time: K2 is an asset no
\* longer than one segment.
Segments(k) == IF k = K2 THEN 1 ELSE NumSegs

\* ---------------------------------------------------------- readiness gate
\* waitForInitialSegments of the router, part_000 lines 14-63. Times are in ms;
\* expected = 0 is expectedSegments = null (both are falsy).
PollMs == 100
ShortTimeoutMs == 10000
ScanDefault == 20
RouteMinSegments == 2
RouteTimeoutMs == 30000

\* A tempDir argument that is no string: path.join throws on it.
NotAPath == <<>>

\* gate.st: "off" no invocation is followed, "idle" none is in progress, "wait"
\* the poll timer is armed, "done" the promise is settled (ok: resolved).
NoGate == [st |-> "off", site |-> "none", key |-> NoKey, dir |-> NotAPath, min |-> 0,
           timeout |-> 0, expected |-> 0, elapsed |-> 0, ok |-> TRUE, playlist |-> -1]
IdleGate == [NoGate EXCEPT !.st = "idle"]

adjustedMinSegments(minSegments, expected) ==
  IF expected # 0
  THEN Min(minSegments, Max({1, CeilDiv(expected, 2)}))
  ELSE minSegments

adjustedTimeout(timeoutMs, expected) ==
  IF expected # 0 /\ expected <= 2 THEN Min(timeoutMs, ShortTimeoutMs) ELSE timeoutMs

\* fs.existsSync(path.join(tempDir, 'segment<i>.ts'))
SegmentExists(dir, i) == dir \in DirNames /\ dirs[dir].exists /\ i \in dirs[dir].segs

Settled(g, ok) == [g EXCEPT !.st = "done", !.ok = ok]

\* A variant of the catch block that fails the call.
catchRejects(g) == Settled(g, FALSE)

\* The catch block of checkSegments, lines 55-58: the promise is resolved.
catchResolves(g) == Settled(g, TRUE)

\* checkSegments, lines 24-59, for the invocation g at g.elapsed ms after its start.
checkSegments(g) ==
  IF g.dir = NotAPath
  THEN catchResolves(g)
  ELSE LET scanned == 0..((IF g.expected # 0 THEN g.expected ELSE ScanDefault) - 1)
           adjusted == adjustedMinSegments(g.min, g.expected)
           totalSegmentCount == Cardinality({i \in scanned : SegmentExists(g.dir, i)})
           segmentCount == Cardinality({i \in scanned : SegmentExists(g.dir, i)
                                                         /\ i < adjusted})
       IN IF \/ segmentCount >= adjusted
             \/ g.expected # 0 /\ totalSegmentCount >= g.expected
          THEN Settled(g, TRUE)
          ELSE IF g.elapsed >= adjustedTimeout(g.timeout, g.expected)
          THEN Settled(g, TRUE)
          ELSE [g EXCEPT !.st = "wait"]

\* The call of waitForInitialSegments up to its return: the first checkSegments
\* runs in the promise executor.
waitForInitialSegments(site, k, tempDir, minSegments, timeoutMs, expected) ==
  checkSegments([st |-> "wait", site |-> site, key |-> k, dir |-> tempDir,
                 min |-> minSegments, timeout |-> timeoutMs, expected |-> expected,
                 elapsed |-> 0, ok |-> TRUE, playlist |-> -1])

\* The gate of the playlist route, lines 141 and 157.
RouteGate(site, k) ==
  waitForInitialSegments(site, k, TempDir(k), RouteMinSegments, RouteTimeoutMs, 0)

Reply(route, site, k, status) ==
  [route |-> route, site |-> site, key |-> k, status |-> status]

\* A reply other than a playlist body.
Send(reply) == responses' = {reply} /\ UNCHANGED playlistSent

\* The playlist route after its gate: the request that found a session reads the
\* playlist file it chose before the gate (line 144; a missing file throws and the
\* catch of line 179 answers 500), the request that generated answers with the
\* file or with the playlist generateHLSSegments returned (lines 160-177). A
\* playlist body is the number of segments it lists.
AfterGate(g) ==
  IF g.st = "done" /\ g.site \in {"cached", "fresh"}
  THEN /\ gate' = IdleGate
       /\ IF PlaylistExists(dirs[g.dir])
          THEN /\ responses' = {Reply("playlist", g.site, g.key, 200)}
               /\ playlistSent' = [playlistSent EXCEPT ![g.key] = dirs[g.dir].playlist]
          ELSE IF g.site = "cached"
          THEN Send(Reply("playlist", g.site, g.key, 500))
          ELSE /\ responses' = {Reply("playlist", g.site, g.key, 200)}
               /\ playlistSent' = [playlistSent EXCEPT ![g.key] = g.playlist]
  ELSE /\ gate' = g
       /\ NoReply

\* The continuation of the playlist route when generateHLSSegments returns
\* (lines 152-157) with hlsData.playlist, the playlist file as the run read it;
\* the gate is followed when no other invocation is.
Generated(k) ==
  IF gate.st = "idle"
  THEN AfterGate([RouteGate("fresh", k) EXCEPT !.playlist = dirs[TempDir(k)].playlist])
  ELSE /\ UNCHANGED gate
       /\ NoReply

\* The continuation of the playlist route when generateHLSSegments throws, line 179.
GenerateFailed(k) == Send(Reply("playlist", "generate", k, 500))

\* The promise of the run is still pending.
Pending(r) ==
  \/ runs[r].st \in {"start", "purged", "made", "ensure", "ensured", "reading"}
  \/ runs[r].st = "alive" /\ ~runs[r].isResolved

\* A handle whose process has exited: only handle.killed is read from it again.
Dead(c) == [FreeRun EXCEPT !.st = "dead", !.killed = c.killed]

\* Handles of exited processes that no session and no timer holds any more are
\* garbage.
Reap(rs, cache, tms) ==
  [r \in RunIds |->
     IF rs[r].st = "dead"
        /\ ~\E k \in Keys : cache[k].has /\ cache[k].child = r
        /\ ~\E tm \in tms : tm.ch = r
     THEN FreeRun ELSE rs[r]]

FreeRunIds == {r \in RunIds : runs[r].st = "free"}

\* The requiredDuration of a generation run, line 722.
GenNeed(opt) == IF 60 >= opt.seg * 6 THEN 60 ELSE opt.seg * 6

\* No cache call returns in this step and the cache is left alone.
CacheIdle ==
  /\ ensureRets' = {}
  /\ UNCHANGED <<localFile, localFileCache, lru, activeDownloads, tasks, calls>>

\* generateNativeLiveHLS's finally block (lines 662-665) once the run's promise
\* settles: both deletions are by key, whoever installed the entry.
GenSettle(r) ==
  /\ activeProcesses' = [activeProcesses EXCEPT ![[key |-> runs[r].key,
                                                   opt |-> runs[r].opt]] = 0]
  /\ hlsGenerationInProgress' = hlsGenerationInProgress \ {runs[r].key}
  /\ awaiting' = [awaiting EXCEPT ![r] = 0]

\* this.activeProcesses.get(cacheKey), lines 647-649: the run whose promise the
\* table holds for the cache key (0: none).
noExistingPromise(k, opt) == 0
existingPromise(k, opt) == activeProcesses[[key |-> k, opt |-> opt]]

\* router.get('/:key/playlist.m3u8') up to its first suspension when it has to
\* generate (lines 119-151), and generateNativeLiveHLS up to the await of
\* getVideoInfo; a request that finds the run of its cacheKey awaits that run.
PlaylistRequest(k, opt) ==
  /\ ~(nativeHlsCache[k].has /\ PlaylistExists(dirs[TempDir(k)]))
  /\ existingPromise(k, opt) = 0
  /\ FreeRunIds # {}
  /\ LET r == Least(FreeRunIds) IN
       /\ runs' = [runs EXCEPT ![r] = [FreeRun EXCEPT !.st = "start", !.key = k,
                                                      !.opt = opt]]
       /\ activeProcesses' = [activeProcesses EXCEPT ![[key |-> k, opt |-> opt]] = r]
       /\ awaiting' = [awaiting EXCEPT ![r] = 1]
  /\ hlsGenerationInProgress' = hlsGenerationInProgress \cup {k}
  /\ CacheIdle
  /\ NoReply /\ UNCHANGED <<webRest, enableLocalCache, currentlyLoadedVideo, nativeHlsCache, dirs, timers,
                 sinceAbortAll>>

\* The same route when generateNativeLiveHLS finds the promise of its cache key
\* in the table (lines 647-649): the request awaits that promise, nothing is
\* started.
PlaylistJoin(k, opt) ==
  /\ ~(nativeHlsCache[k].has /\ PlaylistExists(dirs[TempDir(k)]))
  /\ existingPromise(k, opt) # 0
  /\ awaiting[existingPromise(k, opt)] < MaxWaiters
  /\ awaiting' = [awaiting EXCEPT ![existingPromise(k, opt)] = @ + 1]
  /\ CacheIdle
  /\ NoReply /\ UNCHANGED <<webRest, enableLocalCache, currentlyLoadedVideo, runs,
                 activeProcesses, hlsGenerationInProgress, nativeHlsCache, dirs, timers,
                 sinceAbortAll>>

\* await fs.rm(tempDir, {recursive, force}), line 693.
GenPurge(r) ==
  /\ runs[r].st = "start"
  /\ runs' = [runs EXCEPT ![r].st = "purged"]
  /\ dirs' = [dirs EXCEPT ![TempDir(runs[r].key)] = NoDir]
  /\ CacheIdle
  /\ NoReply /\ UNCHANGED <<webRest, enableLocalCache, currentlyLoadedVideo, activeProcesses,
                 hlsGenerationInProgress, awaiting, nativeHlsCache, timers, sinceAbortAll>>

\* await fs.mkdir(tempDir, {recursive}), line 699.
GenMkdir(r) ==
  /\ runs[r].st = "purged"
  /\ runs' = [runs EXCEPT ![r].st = "made"]
  /\ dirs' = [dirs EXCEPT ![TempDir(runs[r].key)].exists = TRUE]
  /\ CacheIdle
  /\ NoReply /\ UNCHANGED <<webRest, enableLocalCache, currentlyLoadedVideo, activeProcesses,
                 hlsGenerationInProgress, awaiting, nativeHlsCache, timers, sinceAbortAll>>

\* spawn('ffmpeg', ...) and the arming of earlyResolveTimeout, lines 1022-1061.
Spawn(r) ==
  /\ runs' = [runs EXCEPT ![r].st = "alive"]
  /\ timers' = timers \cup {[kind |-> "early", ch |-> r, key |-> runs[r].key]}

\* Removal of playlist.m3u8 and playlist.m3u8.tmp (lines 707-713), then the input
\* choice (lines 719-747): with the local cache the run calls ensureLocalFile,
\* without it the run goes on to the spawn in the same turn.
GenInput(r) ==
  /\ runs[r].st = "made"
  /\ dirs' = [dirs EXCEPT ![TempDir(runs[r].key)].playlist = -1]
  /\ IF enableLocalCache
     THEN /\ ensureLocalFile(runs[r].key, GenNeed(runs[r].opt), r)
          /\ UNCHANGED timers
     ELSE /\ Spawn(r)
          /\ CacheIdle
  /\ NoReply /\ UNCHANGED <<webRest, enableLocalCache, currentlyLoadedVideo, activeProcesses,
                 hlsGenerationInProgress, awaiting, nativeHlsCache, sinceAbortAll>>

\* The continuation of the run after ensureLocalFile: it spawns the child.
GenSpawn(r) ==
  /\ runs[r].st = "ensured"
  /\ Spawn(r)
  /\ CacheIdle
  /\ NoReply /\ UNCHANGED <<webRest, enableLocalCache, currentlyLoadedVideo, activeProcesses,
                 hlsGenerationInProgress, awaiting, nativeHlsCache, dirs, sinceAbortAll>>

\* The child closes a segment and rewrites the playlist. When the directory is
\* gone the open fails, the stderr handler recreates the directory (lines
\* 1077-1089), and the child writes nothing more.
ChildWrite(r) ==
  /\ Alive(r) /\ ~runs[r].stop
  /\ runs[r].seg < Segments(runs[r].key)
  /\ LET d == TempDir(runs[r].key) IN
       IF dirs[d].exists
       THEN /\ dirs' = [dirs EXCEPT ![d].segs = @ \cup {runs[r].seg},
                                    ![d].playlist = runs[r].seg + 1]
            /\ runs' = [runs EXCEPT ![r].seg = @ + 1]
       ELSE /\ dirs' = [dirs EXCEPT ![d] = EmptyDir]
            /\ runs' = [runs EXCEPT ![r].stop = TRUE, ![r].seg = 0]
  /\ CacheIdle
  /\ NoReply /\ UNCHANGED <<webRest, enableLocalCache, currentlyLoadedVideo, activeProcesses,
                 hlsGenerationInProgress, awaiting, nativeHlsCache, timers, sinceAbortAll>>

\* The run's promise resolves with a live child (line 1052): the child goes on
\* on its own.
Resolved(c) == [c EXCEPT !.isResolved = TRUE, !.opt = NoOpt]

\* The earlyResolveTimeout callback, lines 1029-1061, 3 s after the spawn.
EarlyResolve(r) ==
  /\ \E tm \in timers : tm.kind = "early" /\ tm.ch = r
  /\ timers' = {tm \in timers : ~(tm.kind = "early" /\ tm.ch = r)}
  /\ LET k == runs[r].key IN
       IF ~runs[r].isResolved /\ PlaylistExists(dirs[TempDir(k)])
       THEN /\ nativeHlsCache' = [nativeHlsCache EXCEPT ![k] =
                                    [has |-> TRUE, child |-> r, seg |-> runs[r].opt.seg]]
            /\ runs' = Reap([runs EXCEPT ![r] = Resolved(runs[r])],
                            nativeHlsCache', timers')
            /\ GenSettle(r)
            /\ Generated(k)
       ELSE /\ UNCHANGED <<runs, nativeHlsCache, activeProcesses, hlsGenerationInProgress, awaiting,
                           gate>>
            /\ NoReply
  /\ CacheIdle
  /\ UNCHANGED <<segReq, probeVars, analysisVars, audioPlans, tempDirs, enableLocalCache,
                 currentlyLoadedVideo, dirs,
                 sinceAbortAll>>

\* The effect of the child's exit on the handle and on its run: ffmpeg.on('close'),
\* lines 1118-1140. With code 0 before the run resolved, the handler awaits the
\* read of the playlist (st = "reading").
Closed(rs, r, code) ==
  [rs EXCEPT ![r] = IF code = 0 /\ ~rs[r].isResolved
                    THEN [rs[r] EXCEPT !.st = "reading", !.seg = 0, !.pre = FALSE]
                    ELSE Dead(rs[r])]

ChildExit(r, code) ==
  /\ Alive(r)
  /\ code = 0 => (runs[r].seg = Segments(runs[r].key) /\ ~runs[r].stop)
  /\ timers' = {tm \in timers : ~(tm.kind = "early" /\ tm.ch = r)}
  /\ runs' = Reap(Closed(runs, r, code), nativeHlsCache, timers')
  /\ IF ~runs[r].isResolved /\ code # 0
     THEN /\ GenSettle(r)
          /\ GenerateFailed(runs[r].key)
     ELSE /\ UNCHANGED <<activeProcesses, hlsGenerationInProgress, awaiting>>
          /\ NoReply
  /\ CacheIdle
  /\ UNCHANGED <<webRest, enableLocalCache, currentlyLoadedVideo, nativeHlsCache, dirs,
                 sinceAbortAll>>

\* The rest of ffmpeg.on('close') after fs.readFile(playlistPath), lines 1142-1179:
\* the session is installed without a process handle and the TTL timer is armed.
CloseInstall(r) ==
  /\ runs[r].st = "reading"
  /\ LET k == runs[r].key IN
       /\ IF PlaylistExists(dirs[TempDir(k)])
          THEN /\ nativeHlsCache' = [nativeHlsCache EXCEPT ![k] =
                                       [has |-> TRUE, child |-> 0, seg |-> runs[r].opt.seg]]
               /\ timers' = timers \cup {[kind |-> "ttl", ch |-> 0, key |-> k]}
               /\ Generated(k)
          ELSE /\ UNCHANGED <<nativeHlsCache, timers, gate>>
               /\ GenerateFailed(k)
       /\ runs' = Reap([runs EXCEPT ![r] = Dead(runs[r])], nativeHlsCache', timers')
       /\ GenSettle(r)
  /\ CacheIdle
  /\ UNCHANGED <<segReq, probeVars, analysisVars, audioPlans, tempDirs, enableLocalCache,
                 currentlyLoadedVideo, dirs,
                 sinceAbortAll>>

\* ------------------------------------------------------------ abort and load
\* The pattern of the pkill of lines 1328-1341, 'ffmpeg.*videoreview', matches a
\* child's command line through the default cache directory /tmp/videoreview.
PkillMatches == TRUE

\* ChildProcess.kill(signal) of the Node runtime: it delivers the signal only to a
\* running process, and a delivered signal (signal 0 included) sets handle.killed.
Delivered(r) == Alive(r)

\* abortAllFFmpegProcesses(s3Key), lines 1243-1345; s = NoKey is the call without
\* a key. SIGTERM makes a child stop producing; whether and when it exits is the
\* child's affair. The 2 s callback armed for a handle whose process has already
\* exited does nothing (kill returns false) and is left out.
abortAllFFmpegProcesses(s) ==
  LET all == (s = NoKey)
      hlsKeys == {k \in Keys : nativeHlsCache[k].has /\ (all \/ k = s)}
      signalled == {r \in RunIds : ~runs[r].killed
                      /\ \E k \in hlsKeys : nativeHlsCache[k].child = r}
      termed == {r \in signalled : Delivered(r)}
      pkilled == IF all /\ PkillMatches THEN {r \in RunIds : Alive(r)} ELSE {}
  IN /\ activeProcesses' = [ck \in CacheKeys |->
                              IF all \/ Includes(CacheKeyString(ck), s) THEN 0
                              ELSE activeProcesses[ck]]
     /\ timers' = timers
           \cup {[kind |-> "kill", ch |-> r, key |-> runs[r].key]
                   : r \in termed}
           \cup {[kind |-> "rmdir", ch |-> nativeHlsCache[k].child, key |-> k]
                   : k \in hlsKeys}
     /\ nativeHlsCache' = [k \in Keys |-> IF k \in hlsKeys THEN NoSession
                                          ELSE nativeHlsCache[k]]
     /\ runs' = Reap([r \in RunIds |->
                        [runs[r] EXCEPT
                           !.killed = @ \/ r \in termed,
                           !.stop = @ \/ r \in termed \cup pkilled,
                           !.seg = IF r \in termed \cup pkilled THEN 0 ELSE @,
                           !.pre = IF all THEN runs[r].st \notin {"free", "dead"} ELSE @]],
                     nativeHlsCache', timers')
     /\ hlsGenerationInProgress' = IF all THEN {} ELSE hlsGenerationInProgress \ {s}
     /\ UNCHANGED awaiting
     /\ sinceAbortAll' = IF all THEN 0 ELSE sinceAbortAll

\* router.post('/:key/abort')
Abort(k) ==
  /\ abortAllFFmpegProcesses(k)
  /\ CacheIdle
  /\ NoReply /\ UNCHANGED <<webRest, enableLocalCache, currentlyLoadedVideo, dirs>>

\* router.post('/abort-all')
AbortAll ==
  /\ abortAllFFmpegProcesses(NoKey)
  /\ CacheIdle
  /\ NoReply /\ UNCHANGED <<webRest, enableLocalCache, currentlyLoadedVideo, dirs>>

\* isProcessAlive, lines 1230-1241 (r = 0: no process handle).
isProcessAlive(r) == r # 0 /\ ~runs[r].killed /\ Alive(r)

\* loadNewVideo, lines 1392-1449 (called by router.get('/:key/info')).
Load(k) ==
  /\ currentlyLoadedVideo' = k
  /\ IF currentlyLoadedVideo # NoKey /\ currentlyLoadedVideo # k
     THEN /\ abortAllFFmpegProcesses(NoKey)
          /\ activeDownloads' = [activeDownloads EXCEPT ![currentlyLoadedVideo] = 0]
     ELSE IF currentlyLoadedVideo = k
     THEN LET pending == \E ck \in CacheKeys :
                            activeProcesses[ck] # 0 /\ Includes(CacheKeyString(ck), k)
              r == nativeHlsCache[k].child
              hasProc == nativeHlsCache[k].has /\ r # 0
              live == hasProc /\ isProcessAlive(r)
              deadProcessesFound == hasProc /\ ~live
          IN /\ IF (pending \/ live) /\ ~deadProcessesFound
                THEN \* process.kill(0) marks the probed handle killed
                     /\ runs' = IF live THEN [runs EXCEPT ![r].killed = TRUE] ELSE runs
                     /\ UNCHANGED <<activeProcesses, nativeHlsCache, timers,
                                    hlsGenerationInProgress, awaiting, sinceAbortAll>>
                ELSE abortAllFFmpegProcesses(k)
             /\ UNCHANGED activeDownloads
     ELSE UNCHANGED <<activeDownloads, activeProcesses, nativeHlsCache, runs, timers,
                      hlsGenerationInProgress, awaiting, sinceAbortAll>>
  /\ ensureRets' = {}
  /\ NoReply /\ UNCHANGED <<webRest, enableLocalCache, localFile, localFileCache, lru, tasks, calls, dirs>>

\* ------------------------------------------------------------------- timers
\* Pending setTimeout callbacks carry no clock: two timers armed by one abort
\* call for one handle fire in the order of their delays; timers armed at
\* different moments fire in any order.
Delay(kind) == IF kind = "kill" THEN KillAfterSecs ELSE RmdirAfterSecs
Due(tm) ==
  \A x \in timers :
     (x.kind \in {"kill", "rmdir"} /\ x.ch = tm.ch /\ x.key = tm.key)
       => Delay(x.kind) >= Delay(tm.kind)

\* The 2 s callback of abort, lines 1286-1291: SIGKILL unless handle.killed.
KillTimer(tm) ==
  /\ tm \in timers /\ tm.kind = "kill"
  /\ IF ~runs[tm.ch].killed /\ Delivered(tm.ch)
     THEN /\ timers' = {x \in timers : x # tm /\ ~(x.kind = "early" /\ x.ch = tm.ch)}
          /\ runs' = Reap([runs EXCEPT ![tm.ch] = Dead([runs[tm.ch] EXCEPT !.killed = TRUE])],
                          nativeHlsCache, timers')
          /\ IF ~runs[tm.ch].isResolved
             THEN /\ GenSettle(tm.ch)
                  /\ GenerateFailed(runs[tm.ch].key)
             ELSE /\ UNCHANGED <<activeProcesses, hlsGenerationInProgress, awaiting>>
                  /\ NoReply
     ELSE /\ timers' = timers \ {tm}
          /\ runs' = Reap(runs, nativeHlsCache, timers')
          /\ UNCHANGED <<activeProcesses, hlsGenerationInProgress, awaiting>>
          /\ NoReply
  /\ CacheIdle
  /\ UNCHANGED <<webRest, enableLocalCache, currentlyLoadedVideo, nativeHlsCache, dirs,
                 sinceAbortAll>>

\* The 5 s callback of abort, lines 1297-1309: the directory is removed only when
\* the entry had a process handle and that handle is marked killed.
RmdirTimer(tm) ==
  /\ tm \in timers /\ tm.kind = "rmdir" /\ Due(tm)
  /\ timers' = timers \ {tm}
  /\ dirs' = IF tm.ch # 0 /\ runs[tm.ch].killed
             THEN [dirs EXCEPT ![TempDir(tm.key)] = NoDir]
             ELSE dirs
  /\ runs' = Reap(runs, nativeHlsCache, timers')
  /\ CacheIdle
  /\ NoReply /\ UNCHANGED <<webRest, enableLocalCache, currentlyLoadedVideo, activeProcesses,
                 hlsGenerationInProgress, awaiting, nativeHlsCache, sinceAbortAll>>

\* 5 s have passed since the last abort-all: the 2 s callbacks for the children
\* it found alive have run.
AbortDeadline ==
  /\ sinceAbortAll = 0
  /\ ~\E tm \in timers : tm.kind = "kill" /\ runs[tm.ch].pre
  /\ sinceAbortAll' = RmdirAfterSecs
  /\ CacheIdle
  /\ NoReply /\ UNCHANGED <<webRest, enableLocalCache, currentlyLoadedVideo, activeProcesses,
                 hlsGenerationInProgress, awaiting, nativeHlsCache, runs, dirs, timers>>

\* The TTL callback, one hour after a session was installed at the child's exit:
\* cleanupNativeHLSCache lines 1190-1205, up to the await of fs.rm. Whatever
\* session the key has now is killed and its directory removed.
TtlFire(tm) ==
  /\ tm \in timers /\ tm.kind = "ttl"
  /\ LET k == tm.key
         r == nativeHlsCache[k].child
     IN IF nativeHlsCache[k].has
        THEN /\ runs' = IF r # 0 /\ ~runs[r].killed /\ Delivered(r)
                        THEN [runs EXCEPT ![r].killed = TRUE, ![r].stop = TRUE,
                                          ![r].seg = 0]
                        ELSE runs
             /\ dirs' = [dirs EXCEPT ![TempDir(k)] = NoDir]
             /\ timers' = (timers \ {tm})
                            \cup {[kind |-> "ttldel", ch |-> 0, key |-> k]}
        ELSE /\ timers' = timers \ {tm}
             /\ UNCHANGED <<runs, dirs>>
  /\ CacheIdle
  /\ NoReply /\ UNCHANGED <<webRest, enableLocalCache, currentlyLoadedVideo, activeProcesses,
                 hlsGenerationInProgress, awaiting, nativeHlsCache, sinceAbortAll>>

\* cleanupNativeHLSCache after the await, line 1206.
TtlDelete(tm) ==
  /\ tm \in timers /\ tm.kind = "ttldel"
  /\ timers' = timers \ {tm}
  /\ nativeHlsCache' = [nativeHlsCache EXCEPT ![tm.key] = NoSession]
  /\ runs' = Reap(runs, nativeHlsCache', timers')
  /\ CacheIdle
  /\ NoReply /\ UNCHANGED <<webRest, enableLocalCache, currentlyLoadedVideo, activeProcesses,
                 hlsGenerationInProgress, awaiting, dirs, sinceAbortAll>>

\* ------------------------------------------------------- routes and probe
\* A direct call of waitForInitialSegments with arguments of the caller's choice.
GateMinChoices == {1, 2}
GateTimeoutChoices == {250, 10500}
GateExpectedChoices == {0, 1, 2, 3}

Elsewhere ==
  /\ CacheIdle
  /\ UNCHANGED <<enableLocalCache, currentlyLoadedVideo, hlsVars, analysisVars, audioPlans,
                 tempDirs>>

GateCall(tempDir, minSegments, timeoutMs, expected) ==
  /\ gate.st \in {"idle", "done"}
  /\ gate' = waitForInitialSegments("call", NoKey, tempDir, minSegments, timeoutMs, expected)
  /\ NoReply
  /\ Elsewhere
  /\ UNCHANGED <<segReq, probeVars>>

\* The callback of setTimeout(checkSegments, 100), line 54, run when it is due.
GatePoll ==
  /\ gate.st = "wait"
  /\ AfterGate(checkSegments([gate EXCEPT !.elapsed = @ + PollMs]))
  /\ Elsewhere
  /\ UNCHANGED <<segReq, probeVars>>

\* router.get('/:key/playlist.m3u8') for a key whose session has a playlist file,
\* lines 119-147, up to the return of its gate.
PlaylistServe(k) ==
  /\ gate.st = "idle"
  /\ nativeHlsCache[k].has /\ PlaylistExists(dirs[TempDir(k)])
  /\ AfterGate(RouteGate("cached", k))
  /\ Elsewhere
  /\ UNCHANGED <<segReq, probeVars>>

\* Segment file names as the route parameter segmentFile holds them: sequences of
\* characters.
Digits == {"0", "1", "2", "3"}
DigitValue(c) == IF c = "0" THEN 0 ELSE IF c = "1" THEN 1 ELSE IF c = "2" THEN 2 ELSE 3
SegmentFileNames ==
  { <<"0", "0", "0", ".", "t", "s">>, <<"0", "0", "1", ".", "t", "s">>,
    <<"0", "0", "2", ".", "t", "s">>, <<"1", ".", "t", "s">>,
    <<"x", ".", "t", "s">>, <<"0", "0", "1", ".", "m", "p">> }

\* parseInt of the digits s[from..to].
RECURSIVE ParseInt(_, _, _)
ParseInt(s, from, to) ==
  IF from > to THEN 0 ELSE 10 * ParseInt(s, from, to - 1) + DigitValue(s[to])

\* segmentFile.match(/(\d+)\.ts$/) and parseInt(match[1]), lines 191-196: the
\* digits that end right before the final ".ts"; -1 when there is no match.
SegmentIndex(s) ==
  LET n == Len(s)
      ext == n >= 4 /\ s[n - 2] = "." /\ s[n - 1] = "t" /\ s[n] = "s"
      starts == {i \in 1..(n - 3) : \A j \in i..(n - 3) : s[j] \in Digits}
  IN IF ext /\ starts # {} THEN ParseInt(s, Least(starts), n - 3) ELSE -1

NoSegReq == [st |-> "idle", key |-> NoKey, index |-> 0]

\* A variant of streamSegment that serves only while the session's child runs.
streamSegmentWhileAlive(k, segmentIndex) ==
  /\ nativeHlsCache[k].has /\ isProcessAlive(nativeHlsCache[k].child)
  /\ SegmentExists(TempDir(k), segmentIndex)

\* streamSegment, lines 1455-1471: TRUE when it returns a read stream, FALSE when
\* it throws.
streamSegment(k, segmentIndex) ==
  nativeHlsCache[k].has /\ SegmentExists(TempDir(k), segmentIndex)

\* router.get('/:key/segment:segmentFile'), part_000 lines 186-230, up to pipe():
\* createReadStream opens the file later.
SegmentRequest(k, segmentFile) ==
  /\ segReq.st = "idle"
  /\ LET segmentIndex == SegmentIndex(segmentFile) IN
       IF segmentIndex = -1
       THEN /\ Send(Reply("segment", "match", k, 400))
            /\ UNCHANGED segReq
       ELSE IF streamSegment(k, segmentIndex)
       THEN /\ segReq' = [st |-> "opening", key |-> k, index |-> segmentIndex]
            /\ NoReply
       ELSE /\ Send(Reply("segment", "catch", k, 500))
            /\ UNCHANGED segReq
  /\ Elsewhere
  /\ UNCHANGED <<gate, probeVars>>

\* The read stream opens its file: on success the body is piped with status 200,
\* on failure the stream's 'error' handler answers 500 (lines 217-222).
SegmentOpen ==
  /\ segReq.st = "opening"
  /\ Send(Reply("segment", "stream", segReq.key,
                IF SegmentExists(TempDir(segReq.key), segReq.index) THEN 200 ELSE 500))
  /\ segReq' = NoSegReq
  /\ Elsewhere
  /\ UNCHANGED <<gate, probeVars>>

\* --------------------------------------------------------------- video info
\* getVideoInfo, lines 490-570, and the memo part of
\* checkSufficientDataForDuration, lines 396-416. ffprobe reports the metadata of
\* the source object, which does not change.
ProbeIds == 1..MaxProbes
ProbeRecord(k) == [of |-> k, duration |-> SrcSize * SecsPerChunk]
NoInfo == [has |-> FALSE, rec |-> [of |-> NoKey, duration |-> 0]]
FreeProbe == [st |-> "free", key |-> NoKey, by |-> "none"]
FreeProbeIds == {p \in ProbeIds : probes[p].st = "free"}

\* What a settled call returned: the record, or an error (ok = FALSE), and
\* whether an ffprobe process ran for it.
ProbeReturn(k, ok, rec, ran) == [key |-> k, ok |-> ok, rec |-> rec, ran |-> ran]

\* A variant of the memo lookup that never finds the record.
MemoMiss(k) == FALSE

\* this.videoInfoCache.has(videoInfoCacheKey), lines 406 and 499.
MemoHit(k) == videoInfoCache[k].has

\* A call of getVideoInfo (by = "info") or of checkSufficientDataForDuration
\* (by = "check", which calls getVideoInfo when it finds no memo) up to its first
\* suspension: a memo hit returns the memo, otherwise ffprobe is started.
GetVideoInfo(k, by) ==
  /\ IF MemoHit(k)
     THEN /\ probeRets' = {ProbeReturn(k, TRUE, videoInfoCache[k].rec, FALSE)}
          /\ UNCHANGED probes
     ELSE /\ FreeProbeIds # {}
          /\ probes' = [probes EXCEPT ![Least(FreeProbeIds)] =
                          [st |-> "running", key |-> k, by |-> by]]
          /\ probeRets' = {}
  /\ UNCHANGED <<videoInfoCache, infoExpiry>>
  /\ NoReply
  /\ Elsewhere
  /\ UNCHANGED <<gate, segReq>>

\* The ffprobe callback, lines 506-565, and for a caller in
\* checkSufficientDataForDuration the continuation of lines 410-415, which stores
\* the record again and arms a second timer.
ProbeCallback(p, err) ==
  /\ probes[p].st = "running"
  /\ LET k == probes[p].key
         armed == IF probes[p].by = "check" THEN <<k, k>> ELSE <<k>>
     IN IF err
        THEN /\ probeRets' = {ProbeReturn(k, FALSE, NoInfo.rec, TRUE)}
             /\ UNCHANGED <<videoInfoCache, infoExpiry>>
        ELSE /\ Len(infoExpiry) + Len(armed) <= MaxInfoTimers
             /\ videoInfoCache' = [videoInfoCache EXCEPT
                                     ![k] = [has |-> TRUE, rec |-> ProbeRecord(k)]]
             /\ infoExpiry' = infoExpiry \o armed
             /\ probeRets' = {ProbeReturn(k, TRUE, ProbeRecord(k), TRUE)}
  /\ probes' = [probes EXCEPT ![p] = FreeProbe]
  /\ NoReply
  /\ Elsewhere
  /\ UNCHANGED <<gate, segReq>>

\* The one-hour timers of lines 413-415 and 559-561 run in the order they were
\* armed; each deletes the memo its key has now.
InfoExpire ==
  /\ infoExpiry # <<>>
  /\ videoInfoCache' = [videoInfoCache EXCEPT ![Head(infoExpiry)] = NoInfo]
  /\ infoExpiry' = Tail(infoExpiry)
  /\ probeRets' = {}
  /\ UNCHANGED probes
  /\ NoReply
  /\ Elsewhere
  /\ UNCHANGED <<gate, segReq>>


\* ----------------------------------------------------------------- analysis
\* getAudioWaveform (lines 1671-1714, with _generateWaveformData) and
\* getEbuR128Analysis (lines 1844-1931), followed for the calls whose
\* ensureLocalFile returns the path at once. The source is of a container that
\* ffmpeg decodes up to the end of what is on disk.
WholeDuration == SrcSize * SecsPerChunk

\* What ffmpeg measures when it reads start..start+duration of the file f: the
\* chunks of that range that the file holds.
Reading(f, start, duration) ==
  {c \in f.chunks : (c - 1) * SecsPerChunk < start + duration /\ c * SecsPerChunk > start}

Analysis(kind, k, start, duration) ==
  [kind |-> kind, key |-> k, start |-> start, duration |-> duration]

Result(a, reading) == [call |-> a, reading |-> reading]

\* The call up to the spawn of ffmpeg on the local path; a waveform call that
\* finds its key in waveformCache returns the cached waveform (lines 1686-1689),
\* a loudness call always spawns.
AnalysisRequest(kind, k, start, duration) ==
  LET a == Analysis(kind, k, start, duration)
      need == IF kind = "waveform" THEN 0 ELSE duration
  IN /\ enableLocalCache
     /\ IF kind = "waveform" /\ waveformCache[k].has
        THEN /\ measured' = measured \cup {Result(a, waveformCache[k].reading)}
             /\ ensureRets' = {}
             /\ UNCHANGED <<analyses, localFile, localFileCache, lru, activeDownloads,
                            tasks, calls, runs>>
        ELSE /\ ExistsSync(localFile[k])
             /\ need = 0 \/ checkSufficientDataForDuration(localFile[k], need)
             /\ ensureLocalFile(k, need, 0)
             /\ analyses' = analyses \cup {a}
             /\ UNCHANGED measured
     /\ NoReply
     /\ UNCHANGED <<waveformCache, gate, segReq, probeVars, audioPlans, tempDirs, enableLocalCache,
                    currentlyLoadedVideo, hlsRest>>

\* ffmpeg.on('close') with code 0, lines 1786-1828 and 1911-1920: the call
\* returns what the process read; a waveform is stored in waveformCache first
\* (line 1705).
AnalysisClose(a) ==
  /\ a \in analyses
  /\ ExistsSync(localFile[a.key])
  /\ LET reading == Reading(localFile[a.key], a.start, a.duration) IN
       /\ measured' = measured \cup {Result(a, reading)}
       /\ waveformCache' = IF a.kind = "waveform"
                           THEN [waveformCache EXCEPT ![a.key] =
                                   [has |-> TRUE, reading |-> reading]]
                           ELSE waveformCache
  /\ analyses' = analyses \ {a}
  /\ NoReply
  /\ CacheIdle
  /\ UNCHANGED <<gate, segReq, probeVars, audioPlans, tempDirs, enableLocalCache,
                 currentlyLoadedVideo, hlsVars>>

\* ------------------------------------------------------------- audio layout
\* The audio streams of an asset as ffprobe lists them; stream indices count
\* from 0 as in the ffmpeg stream specifiers.
MaxStreams == 4
StreamKinds == [channels : {1, 2}, sample_rate : {44100, 48000}, codec_name : {"pcm", "aac"}]
Layouts == UNION {[1..n -> StreamKinds] : n \in 0..MaxStreams}

\* The return value null of _detectMonoStreamCombinations.
NoCombination == [canCombineFirstTwo |-> FALSE, compatible |-> FALSE,
                  stream1Index |-> -1, stream2Index |-> -1]

\* _detectMonoStreamCombinations, lines 1362-1390.
detectMonoStreamCombinations(audioStreams) ==
  LET mono == {i \in 1..Len(audioStreams) : audioStreams[i].channels = 1}
      first == Least(mono)
      second == Least(mono \ {first})
  IN IF Len(audioStreams) < 2 \/ Cardinality(mono) < 2
     THEN NoCombination
     ELSE [canCombineFirstTwo |-> TRUE,
           compatible |-> /\ audioStreams[first].sample_rate = audioStreams[second].sample_rate
                          /\ audioStreams[first].codec_name = audioStreams[second].codec_name,
           stream1Index |-> first - 1,
           stream2Index |-> second - 1]

\* An audio graph: the pair of streams that amerge joins (<<>>: none) and the
\* streams that are taken one by one, in output order.
AudioGraph(merged, single) == [merged |-> merged, single |-> single]

RECURSIVE Others(_, _, _)
Others(n, from, skip) ==
  IF from >= n THEN <<>>
  ELSE (IF from \in skip THEN <<>> ELSE <<from>>) \o Others(n, from + 1, skip)

\* The -map arguments of the transcoder, lines 833-931.
transcoderGraph(audioStreams) ==
  LET combo == detectMonoStreamCombinations(audioStreams)
      hasMonoCombination == Len(audioStreams) > 0 /\ combo.canCombineFirstTwo
  IN IF hasMonoCombination
     THEN AudioGraph(<<combo.stream1Index, combo.stream2Index>>,
                     Others(Len(audioStreams), 0, {combo.stream1Index, combo.stream2Index}))
     ELSE AudioGraph(<<>>, Others(Len(audioStreams), 0, {}))

\* The audioFilter of _generateWaveformData, lines 1746-1765: [0:a] is the first
\* audio stream, [0:a:1] the second.
waveformGraph(audioStreams) ==
  LET combo == detectMonoStreamCombinations(audioStreams)
      hasComplexLayout ==
        /\ Len(audioStreams) > 2
        /\ Cardinality({i \in 1..Len(audioStreams) : audioStreams[i].channels = 1}) > 2
  IN IF hasComplexLayout THEN AudioGraph(<<>>, <<1>>)
     ELSE IF combo.canCombineFirstTwo
     THEN AudioGraph(<<combo.stream1Index, combo.stream2Index>>, <<>>)
     ELSE AudioGraph(<<>>, <<0>>)

\* The filterComplex of getEbuR128Analysis, lines 1875-1887.
ebuR128Graph(audioStreams) ==
  LET combo == detectMonoStreamCombinations(audioStreams)
  IN IF combo.canCombineFirstTwo
     THEN AudioGraph(<<combo.stream1Index, combo.stream2Index>>, <<>>)
     ELSE AudioGraph(<<>>, <<0>>)

\* A worker builds its ffmpeg command line for an asset with the audio streams
\* audioStreams; the waveform and the loudness worker return or throw before
\* that when the asset has no audio (lines 1678-1690, 1847-1851).
BuildAudioGraph(worker, audioStreams) ==
  /\ worker \in {"waveform", "loudness"} => Len(audioStreams) > 0
  /\ audioPlans' = {[worker |-> worker, audioStreams |-> audioStreams,
                     graph |-> IF worker = "transcoder" THEN transcoderGraph(audioStreams)
                               ELSE IF worker = "waveform" THEN waveformGraph(audioStreams)
                               ELSE ebuR128Graph(audioStreams)]}
  /\ NoReply
  /\ CacheIdle
  /\ UNCHANGED <<enableLocalCache, currentlyLoadedVideo, hlsVars, gate, segReq, probeVars,
                 analysisVars, tempDirs>>

\* ------------------------------------------------- working directory paths
\* Keys as the route parameter holds them after decoding, over a small alphabet
\* with an allowed character, the dot, the slash and the underscore.
MaxKeyLen == 2
KeyChars == {"a", ".", "/", "_"}
KeyStrings == UNION {[1..n -> KeyChars] : n \in 1..MaxKeyLen}

\* A path is the sequence of its components. this.localCacheDir (line 29) and
\* path.join(this.localCacheDir, 'live-hls') (line 685).
LocalCacheDir == << <<"v", "i", "d", "e", "o", "r", "e", "v", "i", "e", "w">> >>
LiveHlsDir == Append(LocalCacheDir, <<"l", "i", "v", "e", "-", "h", "l", "s">>)

\* path.join(base, name) for a name without a separator: '.' is dropped and
\* '..' leaves the directory it follows.
PathJoin(base, name) ==
  IF name = <<".">> THEN base
  ELSE IF name = <<".", ".">> THEN SubSeq(base, 1, Len(base) - 1)
  ELSE Append(base, name)

\* tempDir of _generateNativeLiveHLSInternal, lines 684-685.
tempDirOf(s3Key) == PathJoin(LiveHlsDir, Sanitize(s3Key))

\* p is a directory below base, at any depth.
StrictDescendant(p, base) == Len(p) > Len(base) /\ SubSeq(p, 1, Len(base)) = base

\* A session start for the key s3Key derives its working directory, removes it
\* recursively and makes it again (lines 684-699). The model remembers two
\* starts.
MaxStarts == 2
StartDirectory(s3Key) ==
  /\ Cardinality(tempDirs) < MaxStarts
  /\ tempDirs' = tempDirs \cup {[key |-> s3Key, tempDir |-> tempDirOf(s3Key)]}
  /\ NoReply
  /\ CacheIdle
  /\ UNCHANGED <<enableLocalCache, currentlyLoadedVideo, hlsVars, gate, segReq, probeVars,
                 analysisVars, audioPlans>>

\* ----------------------------------------------------------------- progress
\* Math.round(n / d * 100) for n >= 0 and d > 0.
Percent(n, d) == (200 * n + d) \div (2 * d)

\* Math.round(x * 0.5) for x >= 0: halves are rounded up.
RoundHalf(x) == (x + 1) \div 2

\* What an awaited getVideoInfo gives getVideoProgress: the record, or a throw.
InfoThrown == [ok |-> FALSE, duration |-> 0, size |-> 0]
InfoOf(rec) == [ok |-> TRUE, duration |-> rec.duration, size |-> SrcSize]

\* A variant of the overall figure that counts the download only.
overallOfDownload(status, downloadProgress, processingProgress) ==
  IF status = "ready" THEN 100 ELSE RoundHalf(downloadProgress)

\* The overall progress calculation, lines 1642-1649.
overallProgress(status, downloadProgress, processingProgress) ==
  IF status = "ready" THEN 100
  ELSE IF status = "processing" THEN 50 + RoundHalf(processingProgress)
  ELSE IF status = "downloading" THEN RoundHalf(downloadProgress)
  ELSE 0

\* getVideoProgress, lines 1541-1669, with info what its getVideoInfo calls give;
\* message and estimatedTimeRemaining are left out of the record. Durations are
\* positive.
getVideoProgress(k, info) ==
  LET cacheEntry == localFileCache[k]
      totalSize == IF cacheEntry.totalSize # 0 THEN cacheEntry.totalSize ELSE info.size
      download ==
        IF ~cacheEntry.has THEN [progress |-> 0, status |-> "initializing"]
        ELSE IF cacheEntry.isPartial = "false"
        THEN [progress |-> 100, status |-> "downloaded"]
        ELSE IF cacheEntry.size # 0 /\ totalSize # 0
        THEN [progress |-> Percent(cacheEntry.size, totalSize), status |-> "downloading"]
        ELSE [progress |-> 0, status |-> "initializing"]
      started == IF k \in hlsGenerationInProgress /\ ~nativeHlsCache[k].has
                 THEN "starting" ELSE download.status
      counted == nativeHlsCache[k].has /\ info.ok
      expectedSegments == CeilDiv(info.duration, 10)
      existingSegments ==
        Cardinality({i \in 0..(expectedSegments - 1) : SegmentExists(TempDir(k), i)})
      minSegmentsForReady == Min(3, Max({1, CeilDiv(expectedSegments, 2)}))
      processingProgress == IF counted THEN Percent(existingSegments, expectedSegments)
                            ELSE 0
      status ==
        IF ~counted THEN started
        ELSE IF \/ existingSegments >= minSegmentsForReady
                \/ existingSegments = expectedSegments
        THEN "ready"
        ELSE IF existingSegments > 0 THEN "processing"
        ELSE started
  IN [status |-> status,
      downloadProgress |-> download.progress,
      processingProgress |-> processingProgress,
      overallProgress |-> overallProgress(status, download.progress, processingProgress),
      ready |-> (status = "ready")]

\* router.get('/:key/progress'), part_000 lines 418-427, with the getVideoInfo
\* calls of getVideoProgress: a memoized record is returned; otherwise ffprobe
\* runs and either fails (err) or gives the record, which is memoized.
ProgressRequest(k, err) ==
  /\ LET asked == (localFileCache[k].has /\ localFileCache[k].totalSize = 0)
                    \/ nativeHlsCache[k].has
         info == IF MemoHit(k) THEN InfoOf(videoInfoCache[k].rec)
                 ELSE IF err THEN InfoThrown
                 ELSE InfoOf(ProbeRecord(k))
     IN /\ err => asked /\ ~MemoHit(k)
        /\ responses' = {[route |-> "progress", key |-> k,
                          body |-> getVideoProgress(k, info)]}
        /\ IF asked /\ ~MemoHit(k) /\ ~err
           THEN /\ Len(infoExpiry) < MaxInfoTimers
                /\ videoInfoCache' = [videoInfoCache EXCEPT
                                        ![k] = [has |-> TRUE, rec |-> ProbeRecord(k)]]
                /\ infoExpiry' = Append(infoExpiry, k)
           ELSE UNCHANGED <<videoInfoCache, infoExpiry>>
  /\ probeRets' = {}
  /\ Elsewhere
  /\ UNCHANGED <<playlistSent, gate, segReq, probes>>

\* ----------------------------------------------------------- specifications
InitWeb(cache, follow) ==
  /\ enableLocalCache = cache
  /\ currentlyLoadedVideo = NoKey
  /\ localFile = [k \in Keys |-> NoFile]
  /\ localFileCache = [k \in Keys |-> NoEntry]
  /\ lru = <<>>
  /\ activeDownloads = [k \in Keys |-> 0]
  /\ tasks = [t \in TaskIds |-> FreeTask]
  /\ calls = [c \in CallIds |-> FreeCall]
  /\ ensureRets = {}
  /\ activeProcesses = [ck \in CacheKeys |-> 0]
  /\ hlsGenerationInProgress = {}
  /\ awaiting = [r \in RunIds |-> 0]
  /\ nativeHlsCache = [k \in Keys |-> NoSession]
  /\ runs = [r \in RunIds |-> FreeRun]
  /\ dirs = [d \in DirNames |-> NoDir]
  /\ timers = {}
  /\ sinceAbortAll = -1
  /\ gate = IF follow THEN IdleGate ELSE NoGate
  /\ segReq = NoSegReq
  /\ responses = {}
  /\ playlistSent = [k \in Keys |-> -1]
  /\ videoInfoCache = [k \in Keys |-> NoInfo]
  /\ probes = [p \in ProbeIds |-> FreeProbe]
  /\ infoExpiry = <<>>
  /\ probeRets = {}
  /\ analyses = {}
  /\ waveformCache = [k \in Keys |-> [has |-> FALSE, reading |-> {}]]
  /\ measured = {}
  /\ audioPlans = {}
  /\ tempDirs = {}

InitWith(cache) == InitWeb(cache, FALSE)

\* The states a progress request for K1 can find: any entry of the local file
\* cache, no session and no run, a run that has not exposed its session, or the
\* session of a finished child with any of its segments on disk, and any memo of
\* the video info.
ProgressDurations == {10, 25, 60}
ProgressEntries ==
  {NoEntry}
    \cup [has : {TRUE}, size : 0..SrcSize, totalSize : {0}, isPartial : {"undefined"}]
    \cup [has : {TRUE}, size : 0..SrcSize, totalSize : {0, SrcSize}, isPartial : {"true"}]
    \cup [has : {TRUE}, size : {SrcSize}, totalSize : {SrcSize}, isPartial : {"false"}]
DefaultOpt == [seg |-> DefaultSegmentDuration, gonio |-> TRUE]

InitProgress ==
  \E entry \in ProgressEntries, hls \in {"none", "run", "session"},
     segs \in SUBSET (0..NumSegs),
     memo \in {NoInfo} \cup {[has |-> TRUE, rec |-> [of |-> K1, duration |-> d]] :
                               d \in ProgressDurations} :
    /\ enableLocalCache = TRUE
    /\ currentlyLoadedVideo = NoKey
    /\ localFile = [k \in Keys |-> IF k = K1 /\ entry.has
                                   THEN [exists |-> TRUE, chunks |-> 1..entry.size]
                                   ELSE NoFile]
    /\ localFileCache = [k \in Keys |-> IF k = K1 THEN entry ELSE NoEntry]
    /\ lru = IF entry.has THEN <<K1>> ELSE <<>>
    /\ activeDownloads = [k \in Keys |-> 0]
    /\ tasks = [t \in TaskIds |-> FreeTask]
    /\ calls = [c \in CallIds |-> FreeCall]
    /\ ensureRets = {}
    /\ activeProcesses = [ck \in CacheKeys |->
                            IF hls = "run" /\ ck = [key |-> K1, opt |-> DefaultOpt]
                            THEN 1 ELSE 0]
    /\ hlsGenerationInProgress = IF hls = "run" THEN {K1} ELSE {}
    /\ awaiting = [r \in RunIds |-> IF hls = "run" /\ r = 1 THEN 1 ELSE 0]
    /\ nativeHlsCache = [k \in Keys |->
                           IF hls = "session" /\ k = K1
                           THEN [has |-> TRUE, child |-> 0, seg |-> DefaultSegmentDuration]
                           ELSE NoSession]
    /\ runs = [r \in RunIds |->
                 IF hls = "run" /\ r = 1
                 THEN [FreeRun EXCEPT !.st = "start", !.key = K1, !.opt = DefaultOpt]
                 ELSE FreeRun]
    /\ hls # "session" => segs = {}
    /\ dirs = [d \in DirNames |->
                 IF hls = "session" /\ d = TempDir(K1)
                 THEN [exists |-> TRUE, segs |-> segs, playlist |-> NumSegs]
                 ELSE NoDir]
    /\ timers = IF hls = "session" THEN {[kind |-> "ttl", ch |-> 0, key |-> K1]} ELSE {}
    /\ sinceAbortAll = -1
    /\ gate = NoGate
    /\ segReq = NoSegReq
    /\ responses = {}
    /\ playlistSent = [k \in Keys |-> -1]
    /\ videoInfoCache = [k \in Keys |-> IF k = K1 THEN memo ELSE NoInfo]
    /\ probes = [p \in ProbeIds |-> FreeProbe]
    /\ infoExpiry = IF memo.has THEN <<K1>> ELSE <<>>
    /\ probeRets = {}
    /\ analyses = {}
    /\ waveformCache = [k \in Keys |-> [has |-> FALSE, reading |-> {}]]
    /\ measured = {}
    /\ audioPlans = {}
    /\ tempDirs = {}

\* The three audio workers on one asset, of any audio layout.
AudioNext ==
  \E worker \in {"transcoder", "waveform", "loudness"},
     audioStreams \in IF audioPlans = {} THEN Layouts
                      ELSE {p.audioStreams : p \in audioPlans} :
    BuildAudioGraph(worker, audioStreams)

\* Session starts for keys of every spelling.
DirsNext == \E s3Key \in KeyStrings : StartDirectory(s3Key)

\* Progress requests for one key.
ProgressNext == \E err \in BOOLEAN : ProgressRequest(K1, err)

\* Analysis requests for one key, with and without a duration.
CacheNext ==
  \/ \E need \in {0} \cup NeedChoices : EnsureRequest(K1, need)
  \/ \E t \in TaskIds, ok \in BOOLEAN : Response(t, ok)
  \/ \E t \in TaskIds : Data(t)
  \/ \E t \in TaskIds : EarlyCheck(t)
  \/ \E t \in TaskIds, fails \in SUBSET Keys : End(t, fails)
  \/ \E t \in TaskIds, kind \in {"response", "request", "timeout"} : Fail(t, kind)
  \/ \E c \in CallIds, timedOut \in BOOLEAN : PollCheck(c, timedOut)

\* Analysis requests for two keys that share the cache budget: whole-file requests
\* for K1, requests for the first minute of K2.
EvictNext ==
  \/ EnsureRequest(K1, 0)
  \/ EnsureRequest(K2, 60)
  \/ \E t \in TaskIds, ok \in BOOLEAN : Response(t, ok)
  \/ \E t \in TaskIds : Data(t)
  \/ \E t \in TaskIds : EarlyCheck(t)
  \/ \E t \in TaskIds, fails \in SUBSET Keys : End(t, fails)
  \/ \E c \in CallIds : PollCheck(c, FALSE)

\* Key switches while K1 is played from the local cache.
SwitchNext ==
  \/ \E k \in Keys : Load(k)
  \/ PlaylistRequest(K1, [seg |-> DefaultSegmentDuration, gonio |-> TRUE])
  \/ \E r \in RunIds : GenPurge(r)
  \/ \E r \in RunIds : GenMkdir(r)
  \/ \E r \in RunIds : GenInput(r)
  \/ \E r \in RunIds : GenSpawn(r)
  \/ \E t \in TaskIds : Response(t, TRUE)
  \/ \E t \in TaskIds : Data(t)
  \/ \E t \in TaskIds : EarlyCheck(t)
  \/ \E t \in TaskIds : End(t, {})
  \/ \E c \in CallIds : PollCheck(c, FALSE)
  \/ \E r \in RunIds : ChildWrite(r)
  \/ \E r \in RunIds : EarlyResolve(r)
  \/ \E tm \in timers : KillTimer(tm)
  \/ \E tm \in timers : RmdirTimer(tm)

\* K1 is played from the local cache while a whole-file analysis request fetches K2.
PlayNext ==
  \/ PlaylistRequest(K1, [seg |-> DefaultSegmentDuration, gonio |-> TRUE])
  \/ \E r \in RunIds : GenPurge(r)
  \/ \E r \in RunIds : GenMkdir(r)
  \/ \E r \in RunIds : GenInput(r)
  \/ \E r \in RunIds : GenSpawn(r)
  \/ EnsureRequest(K2, 0)
  \/ \E t \in TaskIds : Response(t, TRUE)
  \/ \E t \in TaskIds : Data(t)
  \/ \E t \in TaskIds : EarlyCheck(t)
  \/ \E t \in TaskIds : End(t, {})
  \/ \E r \in RunIds : ChildWrite(r)
  \/ \E r \in RunIds : EarlyResolve(r)

\* Playlist requests for one key with both goniometer settings, children that run
\* to their end, and the TTL of finished sessions.
HlsNext ==
  \/ \E opt \in Opts : PlaylistRequest(K1, opt)
  \/ \E r \in RunIds : GenPurge(r)
  \/ \E r \in RunIds : GenMkdir(r)
  \/ \E r \in RunIds : GenInput(r)
  \/ \E r \in RunIds : ChildWrite(r)
  \/ \E r \in RunIds : EarlyResolve(r)
  \/ \E r \in RunIds, code \in {0, 1} : ChildExit(r, code)
  \/ \E r \in RunIds : CloseInstall(r)
  \/ \E tm \in timers : TtlFire(tm)
  \/ \E tm \in timers : TtlDelete(tm)

\* Playlist requests for one key and abort-all commands.
AbortNext ==
  \/ PlaylistRequest(K1, [seg |-> DefaultSegmentDuration, gonio |-> TRUE])
  \/ \E r \in RunIds : GenPurge(r)
  \/ \E r \in RunIds : GenMkdir(r)
  \/ \E r \in RunIds : GenInput(r)
  \/ \E r \in RunIds : ChildWrite(r)
  \/ \E r \in RunIds : EarlyResolve(r)
  \/ \E r \in RunIds : ChildExit(r, 1)
  \/ AbortAll
  \/ Abort(K1)
  \/ \E tm \in timers : KillTimer(tm)
  \/ \E tm \in timers : RmdirTimer(tm)
  \/ AbortDeadline

\* Analysis requests for one key while the key is aborted.
CancelNext ==
  \/ \E need \in {0} \cup NeedChoices : EnsureRequest(K1, need)
  \/ \E t \in TaskIds : Response(t, TRUE)
  \/ \E t \in TaskIds : Data(t)
  \/ \E t \in TaskIds : EarlyCheck(t)
  \/ \E t \in TaskIds : End(t, {})
  \/ \E c \in CallIds, timedOut \in BOOLEAN : PollCheck(c, timedOut)
  \/ Abort(K1)

\* Direct calls of the readiness gate on the working directory of K1 while runs
\* for K1 purge, make and fill it.
GateNext ==
  \/ PlaylistRequest(K1, [seg |-> DefaultSegmentDuration, gonio |-> TRUE])
  \/ \E r \in RunIds : GenPurge(r)
  \/ \E r \in RunIds : GenMkdir(r)
  \/ \E r \in RunIds : GenInput(r)
  \/ \E r \in RunIds : ChildWrite(r)
  \/ \E r \in RunIds : ChildExit(r, 1)
  \/ \E tempDir \in {TempDir(K1), NotAPath}, minSegments \in GateMinChoices,
        timeoutMs \in GateTimeoutChoices, expected \in GateExpectedChoices :
          GateCall(tempDir, minSegments, timeoutMs, expected)
  \/ GatePoll

\* Playlist requests for the one-segment asset K2, from the first one that
\* generates to later ones that find the session.
ShortNext ==
  \/ PlaylistRequest(K2, [seg |-> DefaultSegmentDuration, gonio |-> TRUE])
  \/ \E r \in RunIds : GenPurge(r)
  \/ \E r \in RunIds : GenMkdir(r)
  \/ \E r \in RunIds : GenInput(r)
  \/ \E r \in RunIds : ChildWrite(r)
  \/ \E r \in RunIds : EarlyResolve(r)
  \/ \E r \in RunIds : ChildExit(r, 0)
  \/ \E r \in RunIds : CloseInstall(r)
  \/ PlaylistServe(K2)
  \/ GatePoll

\* Playlist requests for one key with both goniometer settings, answered through
\* the gate, by the request that generates and by requests that find the session.
ListNext ==
  \/ \E opt \in Opts : PlaylistRequest(K1, opt)
  \/ \E r \in RunIds : GenPurge(r)
  \/ \E r \in RunIds : GenMkdir(r)
  \/ \E r \in RunIds : GenInput(r)
  \/ \E r \in RunIds : ChildWrite(r)
  \/ \E r \in RunIds : EarlyResolve(r)
  \/ PlaylistServe(K1)
  \/ GatePoll

\* Playlist requests for two keys, children that fail, and segment requests.
ExitNext ==
  \/ \E k \in Keys : PlaylistRequest(k, [seg |-> DefaultSegmentDuration, gonio |-> TRUE])
  \/ \E r \in RunIds : GenPurge(r)
  \/ \E r \in RunIds : GenMkdir(r)
  \/ \E r \in RunIds : GenInput(r)
  \/ \E r \in RunIds : ChildWrite(r)
  \/ \E r \in RunIds : EarlyResolve(r)
  \/ \E r \in RunIds : ChildExit(r, 1)
  \/ \E k \in Keys, segmentFile \in SegmentFileNames : SegmentRequest(k, segmentFile)
  \/ SegmentOpen

\* Playlist requests with one set of options, the children's writes and
\* failures; no abort and no load.
JoinNext ==
  \/ \E k \in Keys : PlaylistRequest(k, [seg |-> DefaultSegmentDuration, gonio |-> TRUE])
  \/ \E k \in Keys : PlaylistJoin(k, [seg |-> DefaultSegmentDuration, gonio |-> TRUE])
  \/ \E r \in RunIds : GenPurge(r)
  \/ \E r \in RunIds : GenMkdir(r)
  \/ \E r \in RunIds : GenInput(r)
  \/ \E r \in RunIds : ChildWrite(r)
  \/ \E r \in RunIds : EarlyResolve(r)
  \/ \E r \in RunIds : ChildExit(r, 1)

\* Playlist requests, aborts and requests for the first segment of one key.
ServeNext ==
  \/ PlaylistRequest(K1, [seg |-> DefaultSegmentDuration, gonio |-> TRUE])
  \/ \E r \in RunIds : GenPurge(r)
  \/ \E r \in RunIds : GenMkdir(r)
  \/ \E r \in RunIds : GenInput(r)
  \/ \E r \in RunIds : ChildWrite(r)
  \/ \E r \in RunIds : EarlyResolve(r)
  \/ Abort(K1)
  \/ \E tm \in timers : KillTimer(tm)
  \/ \E tm \in timers : RmdirTimer(tm)
  \/ SegmentRequest(K1, <<"0", "0", "0", ".", "t", "s">>)
  \/ SegmentOpen

\* Info requests and duration checks for two keys, probes that succeed or fail,
\* and the expiry of the memo.
ProbeNext ==
  \/ \E k \in Keys, by \in {"info", "check"} : GetVideoInfo(k, by)
  \/ \E p \in ProbeIds, err \in BOOLEAN : ProbeCallback(p, err)
  \/ InfoExpire

\* Waveform calls and calls for the loudness of the second chunk's first minute
\* while a whole-file request downloads K1.
AnalysisNext ==
  \/ EnsureRequest(K1, 0)
  \/ \E t \in TaskIds : Response(t, TRUE)
  \/ \E t \in TaskIds : Data(t)
  \/ \E t \in TaskIds : End(t, {})
  \/ AnalysisRequest("waveform", K1, 0, WholeDuration)
  \/ AnalysisRequest("loudness", K1, SecsPerChunk, 60)
  \/ \E a \in analyses : AnalysisClose(a)

SpecCache == InitWith(TRUE) /\ [][CacheNext]_vars
SpecEvict == InitWith(TRUE) /\ [][EvictNext]_vars
SpecSwitch == InitWith(TRUE) /\ [][SwitchNext]_vars
SpecPlay == InitWith(TRUE) /\ [][PlayNext]_vars
SpecCancel == InitWith(TRUE) /\ [][CancelNext]_vars
SpecAnalysis == InitWith(TRUE) /\ [][AnalysisNext]_vars

\* The transcoder supervisor with the local cache disabled (ENABLE_LOCAL_CACHE =
\* false): every run reads the signed URL.
SpecHls == InitWith(FALSE) /\ [][HlsNext]_vars
SpecAbort == InitWith(FALSE) /\ [][AbortNext]_vars
SpecGate == InitWeb(FALSE, TRUE) /\ [][GateNext]_vars
SpecShort == InitWeb(FALSE, TRUE) /\ [][ShortNext]_vars
SpecList == InitWeb(FALSE, TRUE) /\ [][ListNext]_vars
SpecDirs == InitWith(FALSE) /\ [][DirsNext]_vars
SpecAudio == InitWith(FALSE) /\ [][AudioNext]_vars
SpecProgress == InitProgress /\ [][ProgressNext]_vars
SpecExit == InitWith(FALSE) /\ [][ExitNext]_vars
SpecServe == InitWith(FALSE) /\ [][ServeNext]_vars
SpecJoin == InitWith(FALSE) /\ [][JoinNext]_vars
SpecProbe == InitWith(FALSE) /\ [][ProbeNext]_vars

\* ------------------------------------------------------------------- claims
\* cleanupCacheIfNeeded runs in this step (it is called from response 'end' only).
EvictionPass == \E t \in TaskIds, fails \in SUBSET Keys : End(t, fails)
\* The pass unlinked k's local file.
Evicted(k) == ExistsSync(localFile[k]) /\ ~ExistsSync(localFile'[k])
\* k's cache entry is partial and the download of k goes on after the step.
PartialEntry(k) ==
  /\ localFileCache[k].has /\ localFileCache[k].isPartial = "true"
  /\ \E t \in TaskIds : tasks'[t].key = k /\ tasks'[t].st = "fetching"
\* Sum of the sizes of the local cache files on disk.
DiskBytes(fs) == SeqSum(<<K1, K2>>, [k \in Keys |-> StatSize(fs[k])])
\* loadNewVideo replaces a loaded key by a different one in this step.
KeySwitch == currentlyLoadedVideo # NoKey /\ currentlyLoadedVideo' # currentlyLoadedVideo

\* C1: for every key, in every reachable state, at most one download task is
\* fetching bytes into the key's local file.
C1_OneDownloadTaskPerKey ==
  \A k \in Keys :
     Cardinality({t \in TaskIds : tasks[t].key = k /\ tasks[t].st = "fetching"
                                  /\ tasks[t].att}) <= 1

\* C2: for every key, in every reachable state, at most one transcoder child
\* spawned for the key is alive.
C2_OneChildPerKey == \A k \in Keys : Cardinality(AliveChildrenOf(k)) <= 1

\* C3: 5 s after abort-all, no transcoder child of a generation that existed when
\* abort-all ran is alive, whether or not its session was in the registry.
C3_NoChildAfterAbortAll ==
  sinceAbortAll = RmdirAfterSecs => \A r \in RunIds : runs[r].pre => ~Alive(r)

\* C4: ensureLocalFile without a required duration returns a path only when the
\* local file is the complete source object and nothing is still writing it.
C4_PathOnlyWhenComplete ==
  \A o \in ensureRets :
     (o.need = 0 /\ o.outcome = "path")
       => /\ ExistsSync(localFile[o.key])
          /\ localFile[o.key].chunks = Chunks
          /\ WritersOf(o.key, tasks) = {}

\* C5: an eviction pass never deletes a local file whose cache entry is partial
\* with its download still running, nor the local file of a key that has a
\* session in the HLS registry.
C5_EvictionSparesPartialAndPlaying ==
  [][EvictionPass => \A k \in Keys :
                       Evicted(k) => ~PartialEntry(k) /\ ~nativeHlsCache[k].has]_vars

\* C6: in the state that follows an eviction pass, the on-disk sizes of the local
\* cache files sum to at most the byte budget.
C6_DiskWithinBudgetAfterEviction ==
  [][EvictionPass => DiskBytes(localFile') <= MaxLocalCacheSize]_vars

\* C7: in every reachable state, every key listed in the HLS session registry has
\* its working directory on disk.
C7_SessionHasDirectory ==
  \A k \in Keys : nativeHlsCache[k].has => dirs[TempDir(k)].exists

\* C8: for every key with a session in the registry, the segment files in its
\* working directory are 000..M without gaps.
C8_SegmentsContiguous ==
  \A k \in Keys :
     nativeHlsCache[k].has
       => \E m \in -1..(NumSegs - 1) : dirs[TempDir(k)].segs = 0..m

\* C9: whenever the currently-loaded key is unset, the session registry is empty
\* and no transcoder child or pending HLS generation exists.
C9_NothingWithoutLoadedKey ==
  currentlyLoadedVideo = NoKey
    => /\ \A k \in Keys : ~nativeHlsCache[k].has
       /\ \A r \in RunIds : ~Alive(r) /\ ~Pending(r)
       /\ hlsGenerationInProgress = {}

\* C10: a load of a key other than the loaded one leaves no session for the
\* previous key, leaves no task fetching the previous key's file, removes its
\* download-task entry, leaves its local file and cache entry in place, and makes
\* the new key the loaded one.
C10_SwitchClearsPreviousKey ==
  [][KeySwitch =>
       LET prev == currentlyLoadedVideo IN
         /\ ~nativeHlsCache'[prev].has
         /\ ~\E t \in TaskIds : tasks'[t].key = prev /\ tasks'[t].st = "fetching"
         /\ activeDownloads'[prev] = 0
         /\ localFile'[prev] = localFile[prev]
         /\ localFileCache'[prev] = localFileCache[prev]
         /\ currentlyLoadedVideo' \in Keys \ {prev}]_vars

\* C11: abort of a key stops the key's running download task, and every
\* ensureLocalFile call waiting on that download is woken by the abort with a
\* cancelled error.
C11_AbortCancelsDownloadAndWaiters ==
  [][\A k \in Keys :
       Abort(k) =>
         /\ ~\E t \in TaskIds : tasks'[t].key = k
                                /\ tasks'[t].st \in {"connecting", "fetching"}
         /\ \A c \in CallIds :
               (calls[c].st # "free" /\ calls[c].key = k)
                 => /\ calls'[c].st = "free"
                    /\ Observation(k, calls[c].need, "cancelled") \in ensureRets']_vars

\* C12: when the 2 s callback of an abort runs and the child that was sent the
\* termination signal has not exited, the child is sent the kill signal (and so
\* is no longer alive).
C12_KillEscalation ==
  [][\A tm \in timers :
       (KillTimer(tm) /\ Alive(tm.ch)) => runs'[tm.ch].st # "alive"]_vars

\* C13: the 5 s callback of an abort leaves the working directory alone when the
\* aborted child is still alive, and an abort of a key whose signalled child is
\* still alive, with no removal pending, arms the removal again.
C13_RemovalWaitsForChild ==
  [][/\ \A tm \in timers :
          (RmdirTimer(tm) /\ tm.ch # 0 /\ Alive(tm.ch))
            => dirs'[TempDir(tm.key)] = dirs[TempDir(tm.key)]
     /\ \A k \in Keys :
          (/\ Abort(k)
           /\ dirs[TempDir(k)].exists
           /\ \E r \in RunIds : Alive(r) /\ runs[r].key = k /\ runs[r].killed
           /\ ~\E tm \in timers : tm.kind = "rmdir" /\ tm.key = k)
            => \E tm \in timers' : tm.kind = "rmdir" /\ tm.key = k]_vars

\* C14: a call of the readiness gate never fails, and it has returned by the
\* first poll at or after its adjusted timeout: while it waits less than the
\* adjusted timeout has passed, and when it has returned it succeeded less than
\* one poll interval after the adjusted timeout.
C14_GateAlwaysSucceedsInTime ==
  LET limit == adjustedTimeout(gate.timeout, gate.expected) IN
    /\ gate.st = "wait" => gate.elapsed < limit
    /\ gate.st = "done" => gate.ok /\ gate.elapsed < limit + PollMs

C14_Witness ==
  /\ gate.st = "done" /\ gate.site = "call" /\ gate.ok
  /\ gate.timeout > ShortTimeoutMs
  /\ gate.elapsed >= adjustedTimeout(gate.timeout, gate.expected)
  /\ gate.elapsed = ShortTimeoutMs

\* C15: when the gate of a playlist request for a one-segment asset has checked
\* the directory and goes on waiting, segment000.ts does not exist.
C15_OneSegmentAssetServedAtOnce ==
  [][(/\ gate'.st = "wait" /\ gate' # gate
      /\ gate'.site \in {"cached", "fresh"}
      /\ Segments(gate'.key) = 1)
       => ~SegmentExists(gate'.dir, 0)]_vars

\* The child of run r exits with a non-zero code before the run has resolved.
FailedStart(r) == ChildExit(r, 1) /\ ~runs[r].isResolved

\* C16 as stated: when a child exits non-zero before its run resolved, the
\* playlist request is answered 500 and the registry then holds no session for
\* the key.
C16_FailedStartLeavesNoSession ==
  [][\A r \in RunIds :
       FailedStart(r) =>
         /\ Reply("playlist", "generate", runs[r].key, 500) \in responses'
         /\ ~nativeHlsCache'[runs[r].key].has]_vars

\* The session of k was installed with a child and that child has exited.
SessionOfExitedChild(k) ==
  /\ nativeHlsCache[k].has /\ nativeHlsCache[k].child # 0
  /\ runs[nativeHlsCache[k].child].st = "dead"

\* C17: when a child exits non-zero after its run resolved, the registry is left
\* as it is and no child is started in that step; and while a key's session is
\* that of an exited child, a request for a segment file that exists is passed
\* to the read stream, and the stream answers 200 when the file is there.
C17_SessionOutlivesChild ==
  [][/\ \A r \in RunIds :
          (ChildExit(r, 1) /\ runs[r].isResolved)
            => /\ nativeHlsCache' = nativeHlsCache
               /\ \A q \in RunIds : runs'[q].st = "alive" => runs[q].st = "alive"
     /\ \A k \in Keys, segmentFile \in SegmentFileNames :
          (/\ SegmentRequest(k, segmentFile)
           /\ SessionOfExitedChild(k)
           /\ SegmentIndex(segmentFile) # -1
           /\ SegmentExists(TempDir(k), SegmentIndex(segmentFile)))
            => segReq'.st = "opening"
     /\ (/\ SegmentOpen
         /\ SessionOfExitedChild(segReq.key)
         /\ SegmentExists(TempDir(segReq.key), segReq.index))
          => Reply("segment", "stream", segReq.key, 200) \in responses']_vars

C17_Witness ==
  \E rp \in responses :
     /\ rp.route = "segment" /\ rp.status = 200
     /\ SessionOfExitedChild(rp.key)

\* C18: a segment request with a malformed name is answered 400; one whose key
\* has no session or whose file does not exist is answered 404; and 200 is
\* answered only for a file that exists in the directory of the key's session.
C18_SegmentStatuses ==
  [][/\ \A k \in Keys, segmentFile \in SegmentFileNames :
          SegmentRequest(k, segmentFile) =>
            LET i == SegmentIndex(segmentFile) IN
              /\ i = -1 => \E rp \in responses' : rp.status = 400
              /\ (i # -1 /\ ~(nativeHlsCache[k].has /\ SegmentExists(TempDir(k), i)))
                   => \E rp \in responses' : rp.status = 404
     /\ \A rp \in responses' :
          (rp.route = "segment" /\ rp.status = 200)
            => nativeHlsCache[rp.key].has /\ SegmentExists(TempDir(rp.key), segReq.index)]_vars

\* The 5 s callback of an abort of k's session is still to come.
WithinRemovalDelay(k) == \E tm \in timers : tm.kind = "rmdir" /\ tm.key = k

\* C19: a child that an abort has signalled writes no further segment, and
\* within 5 s of the abort of a key's session a request for a segment file that
\* exists is passed to the read stream, which answers 200 when the file is there.
C19_SegmentsServedAfterAbort ==
  [][/\ \A r \in RunIds : (Alive(r) /\ runs[r].killed) => ~ChildWrite(r)
     /\ \A k \in Keys, segmentFile \in SegmentFileNames :
          (/\ SegmentRequest(k, segmentFile)
           /\ WithinRemovalDelay(k)
           /\ SegmentIndex(segmentFile) # -1
           /\ SegmentExists(TempDir(k), SegmentIndex(segmentFile)))
            => segReq'.st = "opening"
     /\ (/\ SegmentOpen
         /\ WithinRemovalDelay(segReq.key)
         /\ SegmentExists(TempDir(segReq.key), segReq.index))
          => Reply("segment", "stream", segReq.key, 200) \in responses']_vars

\* C20: a memoized record is the record of a successful probe of its key; a call
\* for a key that has a memo returns that record and starts no probe process;
\* and a probe that fails changes neither the memo nor its timers.
C20_ProbeMemoized ==
  [][/\ \A k \in Keys :
          videoInfoCache'[k].has => videoInfoCache'[k].rec = ProbeRecord(k)
     /\ \A k \in Keys, by \in {"info", "check"} :
          (GetVideoInfo(k, by) /\ videoInfoCache[k].has)
            => /\ probeRets' = {ProbeReturn(k, TRUE, ProbeRecord(k), FALSE)}
               /\ probes' = probes
     /\ \A p \in ProbeIds :
          ProbeCallback(p, TRUE)
            => /\ videoInfoCache' = videoInfoCache
               /\ infoExpiry' = infoExpiry]_vars

C20_Witness ==
  \E k \in Keys :
     /\ ProbeReturn(k, TRUE, ProbeRecord(k), FALSE) \in probeRets
     /\ videoInfoCache[k].has
     /\ \A p \in ProbeIds : probes[p].st = "free"

\* C21: two analysis calls with the same kind, key and parameters have returned
\* equal results.
C21_SameCallSameResult ==
  \A x \in measured, y \in measured : x.call = y.call => x.reading = y.reading

\* C22: when a download task ends in error (a status other than 200, a stream
\* error, the timeout), the local file of its key does not exist afterwards.
C22_NoFileAfterFailedDownload ==
  [][\A t \in TaskIds :
       (\/ Response(t, FALSE)
        \/ \E kind \in {"response", "request", "timeout"} : Fail(t, kind))
         => ~ExistsSync(localFile'[tasks[t].key])]_vars

\* C23: of two successive playlist responses for a key, the second lists the
\* segments of the first and possibly more after them.
C23_PlaylistGrows ==
  [][\A k \in Keys : playlistSent[k] <= playlistSent'[k]]_vars

\* C24: in a progress record the overall figure is half the download figure,
\* rounded, while downloading, 50 plus half the processing figure, rounded,
\* while processing, and 100 when ready; the ready flag is set exactly when the
\* status is ready.
C24_OverallProgress ==
  \A rp \in responses :
    LET p == rp.body IN
      /\ p.status = "downloading" => 2 * p.overallProgress - p.downloadProgress \in {0, 1}
      /\ p.status = "processing"
           => 2 * (p.overallProgress - 50) - p.processingProgress \in {0, 1}
      /\ p.status = "ready" => p.overallProgress = 100
      /\ p.ready <=> p.status = "ready"

C24_Witness ==
  /\ \E rp \in responses : rp.body.status = "processing"
                            /\ rp.body.processingProgress % 2 = 1
                            /\ rp.body.downloadProgress > 0

\* C25: every running transcoder child is the process handle of the session its
\* key has in the registry.
C25_AliveChildIsRegistered ==
  \A r \in RunIds :
    Alive(r) => /\ nativeHlsCache[runs[r].key].has
                /\ nativeHlsCache[runs[r].key].child = r

\* C26: a playlist request that starts a session is answered within a bounded
\* time of the spawn: as long as its run's promise is pending and the child
\* runs, a timer of the run is pending that will settle it.
C26_PendingRequestHasDeadline ==
  \A r \in RunIds :
    Alive(r) /\ Pending(r) => \E tm \in timers : tm.kind = "early" /\ tm.ch = r

\* C27: when the child of a session exits with code 0, a TTL timer for the
\* session's key is armed at that exit, whether the session was exposed before
\* the exit or is installed by it.
C27_NormalExitArmsTtl ==
  [][\A r \in RunIds :
       (\/ ChildExit(r, 0) /\ runs[r].isResolved
        \/ CloseInstall(r) /\ nativeHlsCache'[runs[r].key].has)
         => [kind |-> "ttl", ch |-> 0, key |-> runs[r].key] \in timers']_vars

\* The download of k is fetching bytes: a task for k has not reached its end.
Fetching(k) == \E t \in TaskIds : tasks[t].key = k /\ tasks[t].st \in {"connecting", "fetching"}

\* C28: a caller whose progressive wait times out while the download of its key
\* is still fetching does not fail at the timeout, and afterwards it gets the
\* path only when the download has reached the end of the object.
C28_TimeoutWaitsForCompletion ==
  [][\A c \in CallIds :
       LET k == calls[c].key
           need == calls[c].need
       IN /\ PollCheck(c, TRUE) /\ Fetching(k)
               => Observation(k, need, "error") \notin ensureRets'
          /\ calls[c].st = "await" /\ need # 0 /\ calls[c].by = 0
             /\ calls'[c] = FreeCall
             /\ Observation(k, need, "path") \in ensureRets'
               => tasks[calls[c].task].downloaded = SrcSize]_vars

\* C29: the active-downloads table holds a key exactly while a download of the
\* key is fetching bytes.
C29_TableTracksFetching ==
  \A k \in Keys : activeDownloads[k] # 0 <=> Fetching(k)

\* C30: a load of the key that is already loaded leaves the registry, the child
\* and the working directories as they are when the child registered for the
\* key is running, and removes the key's session when that child is dead.
C30_ReloadKeepsLiveSession ==
  [][\A k \in Keys :
       LET r == nativeHlsCache[k].child IN
         Load(k) /\ currentlyLoadedVideo = k /\ nativeHlsCache[k].has /\ r # 0
           => IF Alive(r)
              THEN /\ nativeHlsCache' = nativeHlsCache
                   /\ dirs' = dirs
                   /\ runs'[r].st = "alive" /\ runs'[r].stop = runs[r].stop
              ELSE ~nativeHlsCache'[k].has]_vars

\* C31: a worker merges two mono streams only when the probe marks the pair
\* compatible (equal sample rate and equal codec).
C31_MergeOnlyCompatible ==
  \A p \in audioPlans :
    p.graph.merged # <<>> => detectMonoStreamCombinations(p.audioStreams).compatible

\* C32: the waveform worker analyses the merged pair of the hint's two streams
\* whenever the hint holds, and the first audio stream otherwise.
C32_WaveformFollowsHint ==
  \A p \in audioPlans :
    p.worker = "waveform" =>
      LET combo == detectMonoStreamCombinations(p.audioStreams)
      IN IF combo.canCombineFirstTwo
         THEN p.graph = AudioGraph(<<combo.stream1Index, combo.stream2Index>>, <<>>)
         ELSE p.graph = AudioGraph(<<>>, <<0>>)

\* The session, the children, the pending-generation records and the download
\* entry of the key k are the same after the step as before it.
KeyUntouched(k) ==
  /\ nativeHlsCache'[k] = nativeHlsCache[k]
  /\ activeDownloads'[k] = activeDownloads[k]
  /\ \A ck \in CacheKeys : ck.key = k => activeProcesses'[ck] = activeProcesses[ck]
  /\ \A r \in RunIds : runs[r].key = k => runs'[r] = runs[r]

\* C33: an abort of a key, and a load that switches away from the key, leave
\* the session, the children, the pending-generation records and the download
\* of every other key as they were.
C33_OtherKeysUntouched ==
  [][\A k \in Keys :
       (\/ Abort(k)
        \/ currentlyLoadedVideo = k /\ \E to \in Keys \ {k} : Load(to))
         => \A other \in Keys \ {k} : KeyUntouched(other)]_vars

\* C34: two session starts for distinct keys never use the same working
\* directory.
C34_DistinctKeysDistinctDirs ==
  \A a \in tempDirs, b \in tempDirs : a.key # b.key => a.tempDir # b.tempDir

\* C40: the working directory that a session start purges and recreates is a
\* strict descendant of the live-hls directory of the cache.
C40_TempDirBelowLiveHls ==
  \A a \in tempDirs : StrictDescendant(a.tempDir, LiveHlsDir)

\* C35: once the cache entry of a key is marked complete (isPartial false), it
\* is never marked partial again and keeps its total size for as long as the
\* file remains cached, whatever ensureLocalFile calls and waiter wake-ups
\* follow.
C35_CompleteStaysComplete ==
  [][\A k \in Keys :
       (/\ localFileCache[k].has /\ localFileCache[k].isPartial = "false"
        /\ localFileCache'[k].has /\ localFile'[k].exists)
       => /\ localFileCache'[k].isPartial # "true"
          /\ localFileCache'[k].totalSize = localFileCache[k].totalSize]_vars

\* C36: the deferred removal armed by an abort of a key never deletes the working
\* directory of a session for that key that was started after the abort. An
\* abort of the key deletes every pending-generation record of the key, so a run
\* that holds its record while the callback is pending was started after the
\* abort: when the callback removes the directory, no such run has purged and
\* recreated it.
C36_DeferredRemovalSparesNewSession ==
  [][\A tm \in timers :
       (/\ tm.kind = "rmdir" /\ tm \notin timers'
        /\ dirs[TempDir(tm.key)].exists /\ ~dirs'[TempDir(tm.key)].exists)
       => ~\E r \in RunIds \ {tm.ch} :
              /\ runs[r].key = tm.key
              /\ runs[r].st \in {"purged", "made", "ensure", "ensured", "alive"}
              /\ activeProcesses[[key |-> tm.key, opt |-> runs[r].opt]] = r]_vars

\* C37: a TTL timer armed for one session of a key affects that session only.
\* The timer is armed when a session without a process handle is installed at
\* the child's exit, so a registered session with a process handle was installed
\* later and replaced it: when the timer fires, that session's child is not
\* signalled, its working directory is not removed and the removal of its
\* registry entry is not scheduled.
C37_TtlSparesNewerSession ==
  [][\A tm \in timers :
       (/\ tm.kind = "ttl" /\ tm \notin timers'
        /\ nativeHlsCache[tm.key].has /\ nativeHlsCache[tm.key].child # 0)
       => /\ runs'[nativeHlsCache[tm.key].child].killed
               = runs[nativeHlsCache[tm.key].child].killed
          /\ dirs'[TempDir(tm.key)] = dirs[TempDir(tm.key)]
          /\ ~\E x \in timers' \ timers : x.kind = "ttldel" /\ x.key = tm.key]_vars

\* C38: the pending-generation record of a cache key is removed only by the run
\* that installed it: when another run for the same key and options settles
\* while the record's own run is still pending, the record stays in place.
C38_RecordOutlivesOlderRun ==
  [][\A ck \in CacheKeys :
       LET r == activeProcesses[ck] IN
         (/\ r # 0 /\ Pending(r)
          /\ runs'[r].st \in {"start", "purged", "made", "ensure", "ensured", "reading"}
                \/ (runs'[r].st = "alive" /\ ~runs'[r].isResolved)
          /\ \E q \in RunIds \ {r} :
                /\ Pending(q) /\ runs[q].key = ck.key /\ runs[q].opt = ck.opt
                /\ runs'[q].st \in {"free", "dead"}
                      \/ (runs'[q].st = "alive" /\ runs'[q].isResolved))
         => activeProcesses'[ck] = r]_vars

\* C39, for overlapping requests: with no abort and no load, a playlist request
\* that arrives for a key and options while the generation started for an
\* earlier request with the same key and options is still pending awaits that
\* same generation and starts nothing: one child serves both requests.
C39_SecondRequestJoins ==
  [][\A r \in RunIds :
       (/\ Pending(r) /\ awaiting[r] >= 1
        /\ \E q \in RunIds : /\ awaiting'[q] > awaiting[q]
                             /\ runs'[q].key = runs[r].key
                             /\ runs'[q].opt = runs[r].opt)
       => /\ awaiting'[r] = awaiting[r] + 1
          /\ runs' = runs
          /\ activeProcesses' = activeProcesses]_vars

\* Two playlist requests await the promise of one run whose child is running.
C39_Witness ==
  \E r \in RunIds : awaiting[r] >= 2 /\ Alive(r) /\ ~runs[r].isResolved

\* C39, for any two requests: with no abort and no load, and all requests
\* carrying the same options, a playlist request that arrives while no session
\* is installed, after the child of an earlier request for the key has written
\* to the working directory, starts no second generation.
C39_OneChildWithoutSession ==
  [][\A k \in Keys :
       (/\ ~nativeHlsCache[k].has
        /\ dirs[TempDir(k)].segs # {}
        /\ \E q \in RunIds : awaiting'[q] > awaiting[q] /\ runs'[q].key = k)
       => runs' = runs]_vars
====
